---------------------------- MODULE Spec2Model ----------------------------
(***************************************************************************)
(* The execution lifecycle of one Query (src/lib/query.js, lines 1-309)    *)
(* and the QueryResult it produces (src/unnamed/part_004, lines 141-347).  *)
(*                                                                         *)
(* JavaScript runs one synchronous turn at a time.  The promise chain of   *)
(* execute() is a program counter `pc`; each continuation of the chain is  *)
(* one action.  The handler and the hooks are supplied by the caller, so   *)
(* what they do is an input: the handler's synchronous body is a turn      *)
(* (`turn = "handler"`) made of the calls it may make on the Query and on  *)
(* the reply function, during which nothing else runs; a hook is a start   *)
(* and, on a later tick, a settlement that succeeds or fails.              *)
(***************************************************************************)
EXTENDS Integers, Sequences, FiniteSets, TLC

\* ------------------------------------------------------------- bounds
\* Longest finite source, largest limit, and the records an unbounded
\* source is followed for beyond that.
MaxRecords == 2
\* Records _passthrough holds before the pipe waits for the consumer.
MaxBuffered == 2
\* Longest hook array a query is configured with.
MaxHooks == 2
\* Cap on the promises execute() creates and on the QueryResults constructed.
MaxExec == 2
MaxResults == 2
\* Calls made on the field map of one QueryResult.
MaxFieldCalls == 3
\* Post-hooks a handler registers on its query while it runs.
MaxHandlerPosts == 1
\* Queries run through one cachedHandler, and the records a wrapped
\* handler's result streams.
MaxCacheRuns == 2
MaxCacheRecords == 1
\* Calls made on a Query and on its QueryResult after the result was built.
MaxFrameCalls == 3
\* Longest data and largest limit of a composed flow, and the most through
\* stages a result has.
MaxPipeRecords == 3
MaxStages == 2

\* ------------------------------------------------------------- values
\* Error objects a handler may throw or pass to reply.
Errors == {"E1", "E2"}
\* The error of a failing pre- or post-hook, and of a failing error handler.
HookError == "HookErr"
ErrHandlerError == "ErrHandlerErr"
\* Result data a handler may pass to reply (finite collections of records).
DataVals == {<<1, 2>>, <<3>>}
\* Values a handler may give to shim.selected().
SelVals == {10, 20}
NoValue == "none"

VARIABLES
    cancelled,      \* query.cancelled
    nPre,           \* query.preHandlers.length
    nPost,          \* query.postHandlers.length
    nErr,           \* query.errorHandlers.length
    promise,        \* query._promise: [id, st, qr, err]
    pc,             \* position of the execute() promise chain
    hidx,           \* number of hooks of the running chain that have been called
    hdone,          \* number of hooks of the running chain that have resolved
    hsnap,          \* length of the hook array the running _tapChain reduced over
    turn,           \* "idle", or "handler" inside the handler's synchronous body
    handlerCalls,   \* number of invocations of query.handler
    listening,      \* reply is registered as a `cancel` listener of the query
    replied,        \* the _.once guard of reply has been consumed
    memo,           \* what _.once memoized: the QueryResult whose shim reply returns
    hShim,          \* the shim the handler holds (index of its QueryResult, 0: none)
    results,        \* every QueryResult constructed, in construction order
    immediates,     \* pending setImmediate(() => resolve(qr)) callbacks
    inner,          \* the promise _invokeHandler returns: [st, qr, err]
    result,         \* query.result (index into results, 0: unset)
    log,            \* what has been observed: events, handler and hook calls
    returned,       \* ids of the promises execute() has returned
    extraReply,     \* reply has been called again after its first invocation
    firstReply,     \* argument of the first invocation of reply
    cancelAt,       \* the phases of the execution at which cancel() has been called
    reExecuted,     \* execute() has been called again after its first call
    arr,            \* what QueryResult.toArray() of the resolved result gave
    hasHandler,     \* query.handler is set
    rejections,     \* the reasons of the rejected promises execute() made on the spot
    cancelEvents,   \* the phases of the execution at which `cancel` has been emitted
    handlerPosts,   \* number of post-hooks the handler registered with query.post()
    params,         \* query.params (the value of its one key; NoValue: not set)
    startParams,    \* query.params as the execute() call that started the execution left it
    execArgs,       \* the params the callers of execute() pass (NoValue: none)
    postStages,     \* stages the post-hooks have put first in result.throughHandlers
    hookArgs,       \* what a post-hook may do when called: TRUE, it puts a stage first
    \* --- configure(), specification ConfigSpec
    qconf,          \* what configure() writes on a Query: the assigned fields,
                    \* the plugins invoked and the listeners registered
    lastCall,       \* the last call of configure(): its argument, whether it
                    \* threw, and the Query as it was before the call
    \* --- the stream of one QueryResult, specification StreamSpec
    limit,          \* query.limit
    srcLen,         \* records the handler's data holds (-1: an unbounded generator)
    srcErrAt,       \* records after which the data raises an error (-1: never)
    qCancelled,     \* query.cancelled, as the QueryResult's source filter reads it
    rCancelled,     \* QueryResult.cancelled
    destroyed,      \* _source.destroy() has been called
    drawn,          \* records drawn from the data so far
    srcDone,        \* _source has ended
    piped,          \* stream() has piped _source into _passthrough
    pt,             \* records written to _passthrough and not yet pulled
    ptEnded,        \* _passthrough.end() has been called
    endFired,       \* times an `end` listener registered through the shim has run
    sourceErr,      \* _sourceErr of stream()
    pullPending,    \* read() has called $flow.pull and the callback has not run
    pushed,         \* records pushed to the consumer of stream()
    cstate,         \* the consumer's stream: "none", "open", "ended", "errored"
    errorsSeen,     \* errors the consumer has observed
    arrRes,         \* the promise of toArray(): [st, recs, err]
    outAtCancel,    \* number of records pushed when cancel() was first called (-1: not called)
    asyncThrough,   \* a through handler of the result is an asynchronous stage
    held,           \* the record inside the asynchronous stage (0: none)
    again,          \* a second call of stream() on the result: what it did, and
                    \* the records that had left _passthrough before it
    qNotified,      \* the query has emitted `cancel` to its listeners
    \* --- the field map of one QueryResult, specification FieldSpec
    qfields,        \* query.fields: field name -> entry
    rfields,        \* QueryResult.fields: field name -> entry
    fcall,          \* the last call made on the field map, and the map before it
    fcount,         \* number of calls made on the field map
    \* --- one cachedHandler and its redis client, specification CacheSpec
    store,          \* the redis hashes the handler keeps: key -> entry
    cq,             \* the query being run: its cache key and its signature
    cpc,            \* position of the run of the query through the handler
    replies,        \* what the read of the cache answered: [err, exists, ...]
    invoked,        \* calls of the wrapped handler made for the query
    creply,         \* what reply() was given for the query
    wcount,         \* RedisWriteStream.count of the query's result
    hrecs,          \* records the wrapped handler's result streams
    runs,            \* queries run through the handler so far
    \* --- the field map and the through handlers of a Query and of its QueryResult as objects, specification FrameSpec
    fieldObjs,      \* the field map objects: object -> the map it holds
    qFieldsRef,     \* query.fields: the object it refers to
    rFieldsRef,     \* QueryResult.fields: the object it refers to
    handlerArrs,    \* the through-handler arrays, in allocation order
    qThroughRef,    \* query.throughHandlers: the array it refers to
    rThroughRef,    \* QueryResult.throughHandlers: the array it refers to
    frameOp,         \* the last call made on the query or on the result, and its number
    \* --- the stages stream() composes for one QueryResult, specification PipeSpec
    pData,          \* number of records the data of the handler holds
    pLimit,         \* query.limit
    pThrough,       \* QueryResult.throughHandlers: the kinds of its stages, in order
    pFlow           \* what stream() composed: the records each stage receives, then the output

\* The variables of the lifecycle of a Query (specification Spec)
lifeVars == <<cancelled, nPre, nPost, nErr, promise, pc, hidx, hdone, hsnap, turn,
              handlerCalls, listening, replied, memo, hShim, results, immediates,
              inner, result, log, returned, extraReply,
              firstReply, cancelAt, reExecuted, arr, hasHandler, rejections,
              cancelEvents, handlerPosts, params, startParams, execArgs,
              postStages, hookArgs>>

\* The variables of configure()
confVars == <<qconf, lastCall>>

\* The variables of the other specifications of this module, which the
\* lifecycle of a Query leaves alone.
\* The variables of the stream of a QueryResult
streamVars == <<limit, srcLen, srcErrAt, qCancelled, rCancelled, destroyed, drawn,
                srcDone, piped, pt, ptEnded, endFired, sourceErr, pullPending, pushed,
                cstate, errorsSeen, arrRes, outAtCancel, asyncThrough, held, again,
                qNotified>>

\* The variables of the field map of a QueryResult
fieldVars == <<qfields, rfields, fcall, fcount>>

\* The variables of a cachedHandler and its cache
cacheVars == <<store, cq, cpc, replies, invoked, creply, wcount, hrecs, runs>>

\* The variables of the field map and the through handlers of a Query and of its QueryResult as objects, specification FrameSpec
frameVars == <<fieldObjs, qFieldsRef, rFieldsRef, handlerArrs, qThroughRef, rThroughRef, frameOp>>

\* The variables of the stages stream() composes for one QueryResult, specification PipeSpec
pipeVars == <<pData, pLimit, pThrough, pFlow>>

auxVars == <<confVars, streamVars, fieldVars, cacheVars, frameVars, pipeVars>>

\* What configure() and the stream of a result leave alone
notConfVars == <<lifeVars, streamVars, fieldVars, cacheVars, frameVars, pipeVars>>
notStreamVars == <<lifeVars, confVars, fieldVars, cacheVars, frameVars, pipeVars>>
notFieldVars == <<lifeVars, confVars, streamVars, cacheVars, frameVars, pipeVars>>
notCacheVars == <<lifeVars, confVars, streamVars, fieldVars, frameVars, pipeVars>>
notFrameVars == <<lifeVars, confVars, streamVars, fieldVars, cacheVars, pipeVars>>
notPipeVars == <<lifeVars, confVars, streamVars, fieldVars, cacheVars, frameVars>>

vars == <<lifeVars, auxVars>>

\* ------------------------------------------------------------- helpers
Entry(k, i, ph, a, q) == [k |-> k, i |-> i, ph |-> ph, a |-> a, q |-> q]

NoPromise == [id |-> 0, st |-> "none", qr |-> 0, err |-> NoValue]
PendingInner == [st |-> "pending", qr |-> 0, err |-> NoValue]
NoInner == [st |-> "none", qr |-> 0, err |-> NoValue]

\* Indices of the log entries that satisfy a test.
LogIdx(k, i, ph) == {n \in 1..Len(log) : log[n].k = k /\ log[n].i = i /\ log[n].ph = ph}
Count(k, i, ph) == Cardinality(LogIdx(k, i, ph))
Logged(k, i, ph) == LogIdx(k, i, ph) # {}
First(k, i, ph) == CHOOSE n \in LogIdx(k, i, ph) : \A m \in LogIdx(k, i, ph) : n <= m


\* ------------------------------------------------------------- values of reply
Nil == [t |-> "nil", e |-> NoValue, d |-> <<>>]
ErrV(e) == [t |-> "err", e |-> e, d |-> <<>>]
DataV(d) == [t |-> "data", e |-> NoValue, d |-> d]
NotCalled == [arg |-> [t |-> "none", e |-> NoValue, d |-> <<>>], by |-> NoValue]

\* The (err, data) argument pairs a handler passes to reply: reply(E),
\* reply(data), reply(null, data), reply(E, data) and reply().
ReplyCalls ==
    {<<ErrV(e), Nil>> : e \in Errors} \cup {<<DataV(d), Nil>> : d \in DataVals}
    \cup {<<Nil, DataV(d)>> : d \in DataVals}
    \cup {<<ErrV(e), DataV(d)>> : e \in Errors, d \in DataVals}
    \cup {<<Nil, Nil>>}

\* `err && err instanceof Error`
IsError(a) == a.t = "err"

\* `data || err`
DataOrErr(a, b) == IF b.t # "nil" THEN b ELSE a

\* ------------------------------------------------------------- QueryResult
\* QueryResult.cancel()
QRCancel(r) == [r EXCEPT !.cancelled = TRUE, !.destroyed = TRUE]

\* _initDatastream: `data = data || []`
InitDatastream(v) == IF v.t = "data" THEN v.d ELSE <<>>

\* A constructor that does not look at query.cancelled
NewQueryResult_NoCancelCheck(v, qc, origin) ==
    [data |-> InitDatastream(v), cancelled |-> FALSE, destroyed |-> FALSE,
     selected |-> 0, origin |-> origin]

\* new QueryResult(query, data); qc is query.cancelled at construction time
NewQueryResult(v, qc, origin) ==
    LET r == [data |-> InitDatastream(v), cancelled |-> FALSE, destroyed |-> FALSE,
              selected |-> 0, origin |-> origin]
    IN IF qc THEN QRCancel(r) ELSE r

\* The records the composed stream of r delivers when it is read to its end
\* with query.cancelled = qc: read() ends the stream at once when the result
\* is cancelled, and the source filters every record out once the query is.
StreamRecords(r, qc) ==
    IF r.cancelled THEN <<>> ELSE IF qc THEN <<>> ELSE r.data

\* ------------------------------------------------------------- Query
\* The params a caller passes to execute(params)
ParamVals == {"v1"}

\* execute(): `this.params = _.assign({}, this.params, params)`, the first
\* statement of every call
MergeParams(cur, p) == IF p # NoValue THEN p ELSE cur

\* execute() without the memoized promise
AlreadyExecuting_NoMemo == FALSE

\* execute(): `if (this._promise) return this._promise`
AlreadyExecuting == promise.st # "none"

\* execute() without the check of the handler
HasHandler_Unchecked == TRUE

\* execute(): `if (!this.handler) return P.reject('No handler defined')`
HasHandler == hasHandler
NoHandlerReason == "No handler defined"

\* cancel() that emits only while query.result is unset
EmitsCancel_OnlyWithoutResult == result = 0

\* cancel(): `this.emit('cancel')`, whatever the state of the execution
EmitsCancel == TRUE

\* _invokeHandler without the short circuit of a cancelled query
ShortCircuit_Never == FALSE

\* _invokeHandler: `if (this.cancelled) return P.resolve(new QueryResult(this))`
ShortCircuit == cancelled

\* reply without the _.once guard
ReplyArmed_Always == TRUE

\* _.once: the wrapped function runs on the first call only
ReplyArmed == ~replied

\* reject(err) / resolve(qr) of the promise _invokeHandler returns: a settled
\* promise stays as it is
Reject(p, e) == IF p.st = "pending" THEN [st |-> "rejected", qr |-> 0, err |-> e] ELSE p
Resolve(p, q) == IF p.st = "pending" THEN [st |-> "resolved", qr |-> q, err |-> NoValue] ELSE p

\* reply resolving the promise in the turn it is called in
ResolveLater_Sync(p, q) == [inner |-> Resolve(p, q), immediates |-> immediates]

\* `setImmediate(() => resolve(qr))`: the resolution is queued, the promise
\* is left pending for the rest of the turn
ResolveLater(p, q) == [inner |-> p, immediates |-> Append(immediates, q)]

\* The reply function (query.js 190-203) called with (a, b) while
\* query.cancelled is qc: the values it leaves in the state it writes.
ReplyOut(a, b, qc, by) ==
    IF ~ReplyArmed
    THEN [replied |-> replied, memo |-> memo, results |-> results,
          immediates |-> immediates, inner |-> inner, firstReply |-> firstReply]
    ELSE IF IsError(a)
    THEN [replied |-> TRUE, memo |-> 0, results |-> results,
          immediates |-> immediates, inner |-> Reject(inner, a.e),
          firstReply |-> [arg |-> a, by |-> by]]
    ELSE LET q == Len(results) + 1
             later == ResolveLater(inner, q)
         IN [replied |-> TRUE, memo |-> q,
             results |-> Append(results, NewQueryResult(DataOrErr(a, b), qc, "reply")),
             immediates |-> later.immediates, inner |-> later.inner,
             firstReply |-> [arg |-> DataOrErr(a, b), by |-> by]]

\* A chain that is over once its last hook has been called, settled or not
ChainComplete_NoWait == hidx >= hsnap

\* A chain that calls the next hook without waiting for the previous one
MayStartHook_NoAwait == hidx < hsnap

\* _tapChain: the reduce over p.tap(interceptor) calls hook i+1 when the
\* promise of hook i has resolved, and resolves after the last one has
ChainComplete == hdone >= hsnap
MayStartHook == hidx = hdone /\ hidx < hsnap

\* The value a chain taps its hooks with: the query for pre-hooks, the
\* QueryResult for post-hooks, the error for error handlers
TapValue == IF pc = "pre" THEN "query" ELSE IF pc = "post" THEN "result" ELSE inner.err

\* A finally clause that lets the error handlers' own outcome through
RethrowError_HandlerErr(err, handlerErr) == handlerErr

\* _handleError: `.finally(() => { throw err; })`
RethrowError(err, handlerErr) == err

\* _handleError without the emit
EmitQueryError_Skip(l, err) == l

\* _handleError: `this.emit('queryError', err)`
EmitQueryError(l, err) == Append(l, Entry("queryError", 0, "emit", err, 0))

\* An executor whose exception is lost instead of rejecting the promise
ThrowOutcome_Unhandled(p, e) == p

\* `new P(function (resolve, reject) { ... handler(self, reply); })`: an
\* exception thrown by the executor rejects the promise, as reject(e) does
ThrowOutcome(p, e) == Reject(p, e)

\* A post-hook chain over the array as it was when execute() was called
PostHandlersRead_AtExecute == nPost - handlerPosts

\* execute(): `.tap(r => this._tapChain(this.postHandlers)(r))` reads
\* this.postHandlers when the tap runs, after _setResult
PostHandlersRead == nPost

\* A flow composed over the through handlers the result was built with,
\* as recorded before any post-hook ran
ThroughHandlersRead_AtConstruction == arr.stages

\* QueryResult.stream(): `.concat(this.throughHandlers)` reads the array
\* when stream() is called; the stages post-hooks have put first are in it
ThroughHandlersRead == postStages

\* A `result` event that does not carry the QueryResult
ResultEvent_NoPayload(r) == Entry("result", 0, "emit", NoValue, 0)

\* execute(): `.tap(r => this.emit('result', r))`
ResultEvent(r) == Entry("result", 0, "emit", NoValue, r)

\* Where the execution stands when cancel() is called: before
\* _invokeHandler has run ("early"), after the handler was invoked and
\* before reply was ("mid"), after that and before query.result is set
\* ("window"), or once query.result is set ("late")
Phase ==
    IF pc \in {"created", "emitExecute", "pre"} THEN "early"
    ELSE IF handlerCalls > 0 /\ ~replied THEN "mid"
    ELSE IF result = 0 THEN "window"
    ELSE "late"

\* cancel() toggling the flag instead of setting it
CancelFlag_Toggle == ~cancelled

\* cancel(): `this.cancelled = true`
CancelFlag == TRUE

\* cancel(): `if (this.result) this.result.cancel()`
CancelResult(rs) ==
    IF result # 0 THEN [rs EXCEPT ![result] = QRCancel(rs[result])] ELSE rs

\* ------------------------------------------------------------- configure()
\* The entries of a hook array of a definition: functions, or anything else
HookArrays(n) == UNION {[1..k -> {"fn", "notfn"}] : k \in 0..n}
AllFunctions(a) == \A i \in 1..Len(a) : a[i] = "fn"

\* The definitions configure() is called with: a handler that is a
\* function, is missing or is not a function; hook arrays; a limit that is
\* absent, an integer or not an integer; plugins and listeners.
Definitions ==
    [handler : {"fn", "missing", "notfn"},
     preHandlers : HookArrays(MaxHooks),
     postHandlers : HookArrays(1),
     errorHandlers : HookArrays(1),
     limit : {"absent", "2", "1.5"},
     plugins : 0..1,
     listeners : 0..1]

\* A schema that does not require the handler
SchemaValid_HandlerOptional(d) ==
    /\ d.handler # "notfn"
    /\ AllFunctions(d.preHandlers)
    /\ AllFunctions(d.postHandlers)
    /\ AllFunctions(d.errorHandlers)
    /\ d.limit # "1.5"

\* SCHEMA: handler is a required function, the hook arrays hold functions,
\* limit is an integer
SchemaValid(d) ==
    /\ d.handler = "fn"
    /\ AllFunctions(d.preHandlers)
    /\ AllFunctions(d.postHandlers)
    /\ AllFunctions(d.errorHandlers)
    /\ d.limit # "1.5"

\* new Query(): the constructor's defaults
NewQuery ==
    [handler |-> "unset", preHandlers |-> <<>>, postHandlers |-> <<>>,
     errorHandlers |-> <<>>, limit |-> "-1", pluginsRun |-> 0, nListeners |-> 0]

\* A Query an earlier configure() has set up
ConfiguredQuery ==
    [handler |-> "fn", preHandlers |-> <<"fn">>, postHandlers |-> <<>>,
     errorHandlers |-> <<>>, limit |-> "2", pluginsRun |-> 1, nListeners |-> 1]

NoCall == [made |-> FALSE, defn |-> NewQuery, threw |-> FALSE, before |-> NewQuery]

\* configure(): `_.assign(this, _.omit(defn, 'plugins', 'listeners'))` with
\* the schema's defaults filled in, then every plugin is invoked and every
\* listener registered
Assigned(q, d) ==
    [handler |-> d.handler, preHandlers |-> d.preHandlers,
     postHandlers |-> d.postHandlers, errorHandlers |-> d.errorHandlers,
     limit |-> IF d.limit = "absent" THEN "-1" ELSE d.limit,
     pluginsRun |-> q.pluginsRun + d.plugins,
     nListeners |-> q.nListeners + d.listeners]

ConfigRest ==
    /\ qconf = NewQuery
    /\ lastCall = NoCall

\* ------------------------------------------------------------- stream()
\* A take() that spares the limit 0
LimitApplies_Positive(l) == l > 0

\* _initDatastream: `this.query.limit >= 0 ? $(data).take(this.query.limit) : $(data)`
LimitApplies(l) == l >= 0

SourceError == "E1"
NoArr == [st |-> "none", recs |-> <<>>, err |-> NoValue]

\* What _source hands to the pipe next: "nil" when the stream has been
\* destroyed, when take() has let `limit` records through or when the data
\* is exhausted (a source that failed ends after its error); "error" where
\* the data raises its error; otherwise the next record
NextEvent ==
    IF destroyed THEN "nil"
    ELSE IF LimitApplies(limit) /\ drawn >= limit THEN "nil"
    ELSE IF srcErrAt = drawn /\ sourceErr = NoValue THEN "error"
    ELSE IF srcErrAt = drawn THEN "nil"
    ELSE IF srcLen >= 0 /\ drawn >= srcLen THEN "nil"
    ELSE "record"

\* read(): `if (self.cancelled)`
ReadSeesCancel == rCancelled

\* toArray(): resolve(data) on `end`, reject(err) on `error`
Resolved(recs) == [st |-> "resolved", recs |-> recs, err |-> NoValue]
Rejected(e) == [st |-> "rejected", recs |-> <<>>, err |-> e]

\* The callback read() gives to $flow.pull, run with a record or with nil
\* (r = 0): `err = err || _sourceErr; if (err) this.emit('error', err); else
\* this.push(val)`, and what toArray() makes of it
PullCallback(r) ==
    IF sourceErr # NoValue
    THEN [out |-> pushed, cstate |-> "errored", errorsSeen |-> errorsSeen + 1,
          arrRes |-> Rejected(sourceErr)]
    ELSE IF r = 0
    THEN [out |-> pushed, cstate |-> "ended", errorsSeen |-> errorsSeen,
          arrRes |-> Resolved(pushed)]
    ELSE [out |-> Append(pushed, r), cstate |-> cstate, errorsSeen |-> errorsSeen,
          arrRes |-> arrRes]

\* stream() called a second time on the same result pipes the one _source
\* into the one _passthrough again and builds a second flow over that
\* _passthrough (nothing is memoized).  highland either refuses the second
\* pipe of a stream that has a consumer (the call throws) or accepts it
\* (the call returns a second sequence over the same _passthrough).
SecondCallOutcomes == {"threw", "returned"}
NotAgain == [st |-> "none", missed |-> 0]

StreamRest ==
    /\ limit = -1
    /\ srcLen = 0
    /\ srcErrAt = -1
    /\ qCancelled = FALSE
    /\ rCancelled = FALSE
    /\ destroyed = FALSE
    /\ drawn = 0
    /\ srcDone = FALSE
    /\ piped = FALSE
    /\ pt = <<>>
    /\ ptEnded = FALSE
    /\ endFired = 0
    /\ sourceErr = NoValue
    /\ pullPending = FALSE
    /\ pushed = <<>>
    /\ cstate = "none"
    /\ errorsSeen = 0
    /\ arrRes = NoArr
    /\ outAtCancel = -1
    /\ asyncThrough = FALSE
    /\ held = 0
    /\ again = NotAgain
    /\ qNotified = FALSE

\* ------------------------------------------------------------- fields
\* A field map holds an entry for each field name it has; an entry holds
\* the keys that were set (NoValue and -1: the key is not set).
FieldNames == {"first", "last"}
Labels == {"X", "Y"}
TypeVals == {"T"}
Absent == [present |-> FALSE, label |-> NoValue, position |-> -1, typeMapping |-> NoValue]
EmptyEntry == [present |-> TRUE, label |-> NoValue, position |-> -1, typeMapping |-> NoValue]
NoFields == [k \in FieldNames |-> Absent]

\* The entries a Query is configured with, and the entries a handler or a
\* caller of fieldDefaults() gives
QueryEntries ==
    {Absent, [EmptyEntry EXCEPT !.label = "X"],
     [EmptyEntry EXCEPT !.label = "X", !.position = 1]}
GivenEntries ==
    {Absent, [EmptyEntry EXCEPT !.label = "Y"], [EmptyEntry EXCEPT !.typeMapping = "T"]}

\* shim.fields(array): `_.object(value.map((v, i) => [v, { position: i }]))`
FromArray(a) ==
    [k \in FieldNames |->
        IF \E i \in 1..Len(a) : a[i] = k
        THEN [EmptyEntry EXCEPT !.position = (CHOOSE i \in 1..Len(a) : a[i] = k) - 1]
        ELSE Absent]

FieldArrays == {<<"first", "last">>, <<"last", "first">>, <<"last">>}

\* The values shim.fields() is called with: maps, and arrays of names
FieldValues == [FieldNames -> GivenEntries] \cup {FromArray(a) : a \in FieldArrays}

\* _.defaults(dst, src) on entries: a key of dst that is set is kept, a
\* key that is not set is taken from src; an undefined src is skipped
DefaultsEntry(dst, src) ==
    IF ~src.present THEN dst
    ELSE [present |-> TRUE,
          label |-> IF dst.label # NoValue THEN dst.label ELSE src.label,
          position |-> IF dst.position # -1 THEN dst.position ELSE src.position,
          typeMapping |-> IF dst.typeMapping # NoValue THEN dst.typeMapping
                          ELSE src.typeMapping]

\* shim.fields(value): `_.forEach(value, (v, k) => self.fields[k] =
\* _.defaults({}, self.fields[k], v))`
ShimFields(fields, value) ==
    [k \in FieldNames |->
        IF value[k].present
        THEN DefaultsEntry(DefaultsEntry(EmptyEntry, fields[k]), value[k])
        ELSE fields[k]]

\* A fieldDefaults that assigns every entry of the defaults
FieldDefaults_Assign(fields, defaults) ==
    [k \in FieldNames |-> IF defaults[k].present THEN defaults[k] ELSE fields[k]]

\* fieldDefaults(defaults): `_.defaults(this.fields, defaults)`, on the
\* entries of the map: an entry the map has is kept whole
FieldDefaults(fields, defaults) ==
    [k \in FieldNames |-> IF fields[k].present THEN fields[k] ELSE defaults[k]]

\* The methods of a FieldConfigurator and the config each hands to
\* configure(): label(l), position(p), type(t)
ConfigMethods == {"label", "position", "type"}
ConfigOf(m) ==
    IF m = "label" THEN [EmptyEntry EXCEPT !.label = "Y"]
    ELSE IF m = "position" THEN [EmptyEntry EXCEPT !.position = 0]
    ELSE [EmptyEntry EXCEPT !.typeMapping = "T"]

\* FieldConfigurator.configure(config): `self.fields[this.field] =
\* _.assign({}, self.fields[this.field], config)`.  The class keeps its map
\* in this.fields; `self` (and `_`) is declared nowhere in its module, so
\* evaluating the left-hand side throws (a ReferenceError, or a TypeError
\* on a host whose global `self` has no `fields`) before anything is
\* assigned: the call throws and the map is left as it was.
ConfiguratorOutcome(fields, f, config) == [threw |-> TRUE, fields |-> fields]

NoFieldCall ==
    [op |-> "none", value |-> NoFields, field |-> NoValue, method |-> NoValue,
     before |-> NoFields, threw |-> FALSE]

FieldRest ==
    /\ qfields = NoFields
    /\ rfields = NoFields
    /\ fcall = NoFieldCall
    /\ fcount = 0

\* ------------------------------------------------------------- cache
\* cachedHandler(handler, options) of lib/redis-cache-handler.js.  Its
\* options give the key and the signature of a query, by default two
\* different hashes of it.
CacheKeys == {"k1", "k2"}
Signatures == {"s1", "s2"}
\* What redis answers for a field that is not there
RedisNil == "nil"

\* JavaScript values of `selected`: what a handler sets is a number or is
\* left undefined; what comes back from redis is a string
JsUndefined == [t |-> "undefined", v |-> ""]
JsNumber(digits) == [t |-> "number", v |-> digits]
JsString(text) == [t |-> "string", v |-> text]
WrappedSelected == {JsUndefined, JsNumber("2")}

\* `hset(key, 'selected', parseInt(result.selected))`: the text redis keeps
ParseIntText(x) == IF x.t = "undefined" THEN "NaN" ELSE x.v

\* Field maps, by the names they configure, and their JSON text
CacheFieldMaps == {{}, {"a"}}
StringifyFields(f) == IF f = {} THEN "{}" ELSE "{\"a\":{}}"
\* JSON.parse(text); JSON.parse(null) is null, which fields() iterates as
\* nothing
ParseFields(text) == IF text = "{\"a\":{}}" THEN {"a"} ELSE {}

\* A redis hash that does not exist
\* `recs[i]` is the field `record:<i-1>`: 0 when the hash has no such field,
\* the run whose wrapped handler gave the record otherwise (the records of
\* one run differ from those of every other).  `by` is the run whose
\* cacheResult wrote `hash`, 0 when none has.
NoEntry == [exists |-> FALSE, hash |-> RedisNil, selected |-> RedisNil, fields |-> RedisNil,
            count |-> 0, recs |-> [i \in 1..MaxCacheRecords |-> 0], by |-> 0]

\* RedisReadStream._read(), call after call: `record:<index>` is pushed
\* while index < count and the field is there, and the stream ends at the
\* first index that is not below count or has no record
RECURSIVE ReadFrom(_, _)
ReadFrom(e, i) ==
    IF i > MaxCacheRecords \/ i > e.count \/ e.recs[i] = 0 THEN <<>>
    ELSE <<e.recs[i]>> \o ReadFrom(e, i + 1)

RedisReadStream(e) == ReadFrom(e, 1)

\* The answers of `multi().exists(key).hget(key, 'selected').hget(key,
\* 'fields').hget(key, 'hash').exec(cb)`: an error, or the four replies
NoReplies == [err |-> FALSE, exists |-> FALSE, selected |-> RedisNil, fields |-> RedisNil,
              hash |-> RedisNil]
ReadError == [NoReplies EXCEPT !.err = TRUE]
RepliesOf(e) == [err |-> FALSE, exists |-> e.exists, selected |-> e.selected,
                 fields |-> e.fields, hash |-> e.hash]

\* The test of the read's callback, once it has seen no error:
\* `if (!replies[0] || signature !== replies[3]) return invokeHandler(...)`
CacheHit_AnyHash(r, signature) == r.exists

CacheHit(r, signature) == r.exists /\ signature = r.hash

NoReply == [src |-> "none", key |-> RedisNil, selected |-> JsUndefined, fields |-> {}]
\* `reply(new RedisReadStream(client, key)).selected(replies[1])
\*     .fields(JSON.parse(replies[2]))`
CachedReply(key, r) ==
    [src |-> "cache", key |-> key, selected |-> JsString(r.selected),
     fields |-> ParseFields(r.fields)]

NoQuery == [key |-> RedisNil, sig |-> RedisNil]

CacheRest ==
    /\ store = [k \in CacheKeys |-> NoEntry]
    /\ cq = NoQuery
    /\ cpc = "idle"
    /\ replies = NoReplies
    /\ invoked = 0
    /\ creply = NoReply
    /\ wcount = 0
    /\ hrecs = 0
    /\ runs = 0

\* ------------------------------------------------------------- copies
\* The QueryResult constructor: `this.fields = _.assign({}, query.fields)`
\* and `this.throughHandlers = [].concat(query.throughHandlers)`.  A field
\* map is an object and a handler list is an array: two references to the
\* same one see each other's writes.
ThroughNames == {"t1", "t2"}

\* A constructor that keeps the reference to the map of the query
NewFieldsObject_Shared(qref) == qref

\* `_.assign({}, query.fields)`: a new object holding the entries of the
\* query's map
NewFieldsObject(qref) == qref + 1

\* `[].concat(arr)` and `arr.concat(h)`: a new array, allocated after the
\* ones there are
NewArray(arrs, elems) == [arrs |-> Append(arrs, elems), ref |-> Len(arrs) + 1]

NoFrameOp == [op |-> "none", n |-> 0]

FrameRest ==
    /\ fieldObjs = <<NoFields, NoFields>>
    /\ qFieldsRef = 1
    /\ rFieldsRef = 2
    /\ handlerArrs = <<<<>>, <<>>>>
    /\ qThroughRef = 1
    /\ rThroughRef = 2
    /\ frameOp = NoFrameOp

\* ------------------------------------------------------------- flow
\* Through handlers are functions from a stream to a stream.  The kinds
\* followed here: a map that tags each record, a flatMap that emits each
\* record twice, a filter that keeps the odd records.
StageKinds == {"tag", "dup", "odd"}
ApplyStage(k, recs) ==
    IF k = "tag" THEN [i \in 1..Len(recs) |-> recs[i] + 10]
    ELSE IF k = "dup" THEN [i \in 1..(2 * Len(recs)) |-> recs[(i + 1) \div 2]]
    ELSE SelectSeq(recs, LAMBDA r : r % 2 = 1)

\* highland take(n): the first n records
Take(recs, n) == IF n < Len(recs) THEN SubSeq(recs, 1, n) ELSE recs

\* _initDatastream(data): `this.query.limit >= 0 ?
\* $(data).take(this.query.limit) : $(data)`
LimitedSource(data, l) == IF LimitApplies(l) THEN Take(data, l) ELSE data

\* flow.create(this, streams).stream(): each stream factory is applied to
\* the stream the one before it returned.  The records every stage
\* receives, in stage order, followed by the output of the last one.
RECURSIVE StageInputs(_, _)
StageInputs(handlers, input) ==
    IF handlers = <<>> THEN <<input>>
    ELSE <<input>> \o StageInputs(Tail(handlers), ApplyStage(Head(handlers), input))

\* A flow whose limit is applied to the output of the through handlers
ComposedFlow_LimitLast(data, l, handlers) ==
    LET ins == StageInputs(handlers, data)
    IN [ins EXCEPT ![Len(ins)] = LimitedSource(@, l)]

\* stream(): `[].concat(_.constant(this._source.pipe(this._passthrough)))
\* .concat(this.throughHandlers)`, over the _source the constructor made
ComposedFlow(data, l, handlers) == StageInputs(handlers, LimitedSource(data, l))

PipeRest ==
    /\ pData = 0
    /\ pLimit = -1
    /\ pThrough = <<>>
    /\ pFlow = <<>>

\* ------------------------------------------------------------- Init
\* The state of a configured Query before execute().  An execution reads
\* only one of postHandlers and errorHandlers (the promise of
\* _invokeHandler settles once), so the two arrays are given the same
\* length: every run of every other configuration is a run of one of these.
QueryRest ==
    /\ cancelled = FALSE
    /\ promise = NoPromise
    /\ pc = "created"
    /\ hidx = 0
    /\ hdone = 0
    /\ hsnap = 0
    /\ turn = "idle"
    /\ handlerCalls = 0
    /\ listening = FALSE
    /\ replied = FALSE
    /\ memo = 0
    /\ hShim = 0
    /\ results = <<>>
    /\ immediates = <<>>
    /\ inner = NoInner
    /\ result = 0
    /\ log = <<>>
    /\ returned = {}
    /\ extraReply = FALSE
    /\ firstReply = NotCalled
    /\ cancelAt = {}
    /\ reExecuted = FALSE
    /\ arr = [done |-> FALSE, recs |-> <<>>, stages |-> 0]
    /\ postStages = 0
    /\ rejections = {}
    /\ cancelEvents = {}
    /\ handlerPosts = 0
    /\ params = NoValue
    /\ startParams = NoValue

Init ==
    /\ QueryRest
    /\ nPre \in 0..MaxHooks
    /\ nPost \in 0..MaxHooks
    /\ nErr = nPost
    /\ hasHandler \in BOOLEAN
    /\ execArgs = {NoValue}
    /\ hookArgs = {FALSE}
    /\ ConfigRest
    /\ StreamRest
    /\ FieldRest
    /\ CacheRest
    /\ FrameRest
    /\ PipeRest

\* ------------------------------------------------------------- actions
\* execute(), and stream() and toArray(), which call it
Execute ==
    /\ turn = "idle"
    /\ \E p \in execArgs : params' = MergeParams(params, p)
    /\ IF AlreadyExecuting
       THEN /\ returned' = returned \cup {promise.id}
            /\ UNCHANGED <<promise, pc, hidx, hdone, hsnap, rejections, startParams>>
       ELSE IF ~HasHandler
       THEN /\ rejections' = rejections \cup {NoHandlerReason}
            /\ UNCHANGED <<promise, pc, hidx, hdone, hsnap, returned, startParams>>
       ELSE /\ promise.id < MaxExec
            /\ startParams' = params'
            /\ UNCHANGED rejections
            /\ promise' = [id |-> promise.id + 1, st |-> "pending", qr |-> 0,
                           err |-> NoValue]
            /\ returned' = returned \cup {promise.id + 1}
            /\ pc' = "emitExecute"
            /\ hidx' = 0
            /\ hdone' = 0
            /\ hsnap' = 0
    /\ reExecuted' = (reExecuted \/ AlreadyExecuting)
    /\ UNCHANGED <<cancelled, nPre, nPost, nErr, turn, handlerCalls, listening,
                   replied, memo, hShim, results, immediates, inner, result, log,
                   extraReply, firstReply, cancelAt, arr>>
    /\ UNCHANGED auxVars
    /\ UNCHANGED <<hasHandler, cancelEvents, handlerPosts, execArgs>>
    /\ UNCHANGED <<postStages, hookArgs>>

\* .tap(() => this.emit('execute')), then the pre-hook chain is built
EmitExecute ==
    /\ turn = "idle"
    /\ pc = "emitExecute"
    /\ log' = Append(log, Entry("execute", 0, "emit", NoValue, 0))
    /\ pc' = "pre"
    /\ hidx' = 0
    /\ hdone' = 0
    /\ hsnap' = nPre
    /\ UNCHANGED <<cancelled, nPre, nPost, nErr, promise, turn, handlerCalls,
                   listening, replied, memo, hShim, results, immediates, inner,
                   result, returned, extraReply, firstReply,
                   cancelAt, reExecuted, arr>>
    /\ UNCHANGED auxVars
    /\ UNCHANGED <<hasHandler, rejections, cancelEvents, handlerPosts>>
    /\ UNCHANGED <<params, startParams, execArgs>>
    /\ UNCHANGED <<postStages, hookArgs>>

\* A hook of the running chain is called with the chain's value.  A
\* post-hook may put a stage first among the through handlers of the
\* result it is called with (`result.throughHandlers.unshift(..)`, as
\* cacheResult does)
HookStart ==
    /\ turn = "idle"
    /\ pc \in {"pre", "post", "err"}
    /\ MayStartHook
    /\ hidx' = hidx + 1
    /\ log' = Append(log, Entry(pc, hidx + 1, "start", TapValue,
                                IF pc = "post" THEN inner.qr ELSE 0))
    /\ UNCHANGED <<cancelled, nPre, nPost, nErr, promise, pc, hdone, hsnap, turn,
                   handlerCalls, listening, replied, memo, hShim, results,
                   immediates, inner, result, returned, extraReply, firstReply,
                   cancelAt, reExecuted, arr>>
    /\ UNCHANGED auxVars
    /\ UNCHANGED <<hasHandler, rejections, cancelEvents, handlerPosts>>
    /\ UNCHANGED <<params, startParams, execArgs>>
    /\ \E u \in hookArgs :
         postStages' = IF u /\ pc = "post" THEN postStages + 1 ELSE postStages
    /\ UNCHANGED hookArgs

\* The promise a hook returned resolves: the chain moves to the next hook
HookResolve ==
    /\ turn = "idle"
    /\ pc \in {"pre", "post", "err"}
    /\ hdone < hidx
    /\ hdone' = hdone + 1
    /\ log' = Append(log, Entry(pc, hdone + 1, "end", NoValue, 0))
    /\ UNCHANGED <<cancelled, nPre, nPost, nErr, promise, pc, hidx, hsnap, turn,
                   handlerCalls, listening, replied, memo, hShim, results,
                   immediates, inner, result, returned, extraReply, firstReply,
                   cancelAt, reExecuted, arr>>
    /\ UNCHANGED auxVars
    /\ UNCHANGED <<hasHandler, rejections, cancelEvents, handlerPosts>>
    /\ UNCHANGED <<params, startParams, execArgs>>
    /\ UNCHANGED <<postStages, hookArgs>>

\* A pre- or post-hook throws or rejects: the rest of the execute() chain is
\* skipped and its promise rejects with the hook's error
HookReject ==
    /\ turn = "idle"
    /\ pc \in {"pre", "post"}
    /\ hdone < hidx
    /\ log' = Append(log, Entry(pc, hdone + 1, "fail", HookError, 0))
    /\ promise' = [promise EXCEPT !.st = "rejected", !.err = HookError]
    /\ pc' = "done"
    /\ UNCHANGED <<cancelled, nPre, nPost, nErr, hidx, hdone, hsnap, turn,
                   handlerCalls, listening, replied, memo, hShim, results,
                   immediates, inner, result, returned, extraReply, firstReply,
                   cancelAt, reExecuted, arr>>
    /\ UNCHANGED auxVars
    /\ UNCHANGED <<hasHandler, rejections, cancelEvents, handlerPosts>>
    /\ UNCHANGED <<params, startParams, execArgs>>
    /\ UNCHANGED <<postStages, hookArgs>>

\* An error handler throws or rejects: the remaining ones are skipped and
\* the finally clause of _handleError throws
ErrHookReject ==
    /\ turn = "idle"
    /\ pc = "err"
    /\ hdone < hidx
    /\ log' = Append(log, Entry(pc, hdone + 1, "fail", ErrHandlerError, 0))
    /\ promise' = [promise EXCEPT !.st = "rejected",
                                  !.err = RethrowError(inner.err, ErrHandlerError)]
    /\ pc' = "done"
    /\ UNCHANGED <<cancelled, nPre, nPost, nErr, hidx, hdone, hsnap, turn,
                   handlerCalls, listening, replied, memo, hShim, results,
                   immediates, inner, result, returned, extraReply, firstReply,
                   cancelAt, reExecuted, arr>>
    /\ UNCHANGED auxVars
    /\ UNCHANGED <<hasHandler, rejections, cancelEvents, handlerPosts>>
    /\ UNCHANGED <<params, startParams, execArgs>>
    /\ UNCHANGED <<postStages, hookArgs>>

\* .then(() => this._invokeHandler(this.handler)): runs when the pre-hook
\* chain has resolved; a cancelled query gets an empty result at once,
\* otherwise reply is created, registered as `cancel` listener and the
\* handler is called
InvokeHandler ==
    /\ turn = "idle"
    /\ pc = "pre"
    /\ ChainComplete
    /\ pc' = "awaitReply"
    /\ IF ShortCircuit
       THEN /\ results' = Append(results, NewQueryResult(Nil, cancelled, "short"))
            /\ inner' = [st |-> "resolved", qr |-> Len(results) + 1, err |-> NoValue]
            /\ UNCHANGED <<turn, handlerCalls, listening, replied, memo, hShim, log>>
       ELSE /\ handlerCalls' = handlerCalls + 1
            /\ log' = Append(log, Entry("handler", 0, "start", NoValue, 0))
            /\ listening' = TRUE
            /\ replied' = FALSE
            /\ memo' = 0
            /\ hShim' = 0
            /\ inner' = PendingInner
            /\ turn' = "handler"
            /\ UNCHANGED results
    /\ UNCHANGED <<cancelled, nPre, nPost, nErr, promise, hidx, hdone, hsnap,
                   immediates, result, returned, extraReply,
                   firstReply, cancelAt, reExecuted, arr>>
    /\ UNCHANGED auxVars
    /\ UNCHANGED <<hasHandler, rejections, cancelEvents, handlerPosts>>
    /\ UNCHANGED <<params, startParams, execArgs>>
    /\ UNCHANGED <<postStages, hookArgs>>

\* The handler calls reply(a, b), in its synchronous body or in a callback
\* of its own on a later tick, and keeps the shim reply returns
HandlerReply ==
    /\ turn \in {"handler", "callback"}
    /\ Len(results) < MaxResults
    /\ extraReply' = (extraReply \/ replied)
    /\ \E c \in ReplyCalls :
         LET out == ReplyOut(c[1], c[2], cancelled, "handler") IN
           /\ replied' = out.replied
           /\ memo' = out.memo
           /\ results' = out.results
           /\ immediates' = out.immediates
           /\ inner' = out.inner
           /\ firstReply' = out.firstReply
           /\ hShim' = out.memo
    /\ UNCHANGED <<cancelled, nPre, nPost, nErr, promise, pc, hidx, hdone, hsnap,
                   turn, handlerCalls, listening, result, log, returned,
                   cancelAt, reExecuted, arr>>
    /\ UNCHANGED auxVars
    /\ UNCHANGED <<hasHandler, rejections, cancelEvents, handlerPosts>>
    /\ UNCHANGED <<params, startParams, execArgs>>
    /\ UNCHANGED <<postStages, hookArgs>>

\* The handler configures the result through the shim: reply(..).selected(v)
HandlerSelected ==
    /\ turn \in {"handler", "callback"}
    /\ hShim # 0
    /\ \E v \in SelVals : results' = [results EXCEPT ![hShim].selected = v]
    /\ UNCHANGED <<cancelled, nPre, nPost, nErr, promise, pc, hidx, hdone, hsnap,
                   turn, handlerCalls, listening, replied, memo, hShim, immediates,
                   inner, result, log, returned, extraReply,
                   firstReply, cancelAt, reExecuted, arr>>
    /\ UNCHANGED auxVars
    /\ UNCHANGED <<hasHandler, rejections, cancelEvents, handlerPosts>>
    /\ UNCHANGED <<params, startParams, execArgs>>
    /\ UNCHANGED <<postStages, hookArgs>>

\* The handler registers a post-hook of its own in its synchronous body,
\* before or after it calls reply: query.post(fn)
HandlerPost ==
    /\ turn = "handler"
    /\ handlerPosts < MaxHandlerPosts
    /\ nPost' = nPost + 1
    /\ handlerPosts' = handlerPosts + 1
    /\ UNCHANGED <<cancelled, nPre, nErr, promise, pc, hidx, hdone, hsnap,
                   turn, handlerCalls, listening, replied, memo, hShim, results,
                   immediates, inner, result, log, returned, extraReply, firstReply,
                   cancelAt, reExecuted, arr>>
    /\ UNCHANGED auxVars
    /\ UNCHANGED <<hasHandler, rejections, cancelEvents>>
    /\ UNCHANGED <<params, startParams, execArgs>>
    /\ UNCHANGED <<postStages, hookArgs>>

\* The handler (or its callback) returns
HandlerReturn ==
    /\ turn \in {"handler", "callback"}
    /\ turn' = "idle"
    /\ UNCHANGED <<cancelled, nPre, nPost, nErr, promise, pc, hidx, hdone, hsnap,
                   handlerCalls, listening, replied, memo, hShim, results,
                   immediates, inner, result, log, returned, extraReply, firstReply,
                   cancelAt, reExecuted, arr>>
    /\ UNCHANGED auxVars
    /\ UNCHANGED <<hasHandler, rejections, cancelEvents, handlerPosts>>
    /\ UNCHANGED <<params, startParams, execArgs>>
    /\ UNCHANGED <<postStages, hookArgs>>

\* The handler throws in its synchronous body: the promise constructor
\* rejects the promise of _invokeHandler
HandlerThrow ==
    /\ turn = "handler"
    /\ \E e \in Errors :
         /\ inner' = ThrowOutcome(inner, e)
         /\ log' = Append(log, Entry("throw", 0, "start", e, 0))
    /\ turn' = "idle"
    /\ UNCHANGED <<cancelled, nPre, nPost, nErr, promise, pc, hidx, hdone, hsnap,
                   handlerCalls, listening, replied, memo, hShim, results,
                   immediates, result, returned, extraReply,
                   firstReply, cancelAt, reExecuted, arr>>
    /\ UNCHANGED auxVars
    /\ UNCHANGED <<hasHandler, rejections, cancelEvents, handlerPosts>>
    /\ UNCHANGED <<params, startParams, execArgs>>
    /\ UNCHANGED <<postStages, hookArgs>>

\* A callback the invoked handler scheduled runs on a later tick
HandlerWake ==
    /\ turn = "idle"
    /\ handlerCalls > 0
    /\ turn' = "callback"
    /\ UNCHANGED <<cancelled, nPre, nPost, nErr, promise, pc, hidx, hdone, hsnap,
                   handlerCalls, listening, replied, memo, hShim, results,
                   immediates, inner, result, log, returned, extraReply, firstReply,
                   cancelAt, reExecuted, arr>>
    /\ UNCHANGED auxVars
    /\ UNCHANGED <<hasHandler, rejections, cancelEvents, handlerPosts>>
    /\ UNCHANGED <<params, startParams, execArgs>>
    /\ UNCHANGED <<postStages, hookArgs>>

\* The setImmediate callback of reply runs: resolve(qr)
RunImmediate ==
    /\ turn = "idle"
    /\ immediates # <<>>
    /\ inner' = Resolve(inner, Head(immediates))
    /\ immediates' = Tail(immediates)
    /\ UNCHANGED <<cancelled, nPre, nPost, nErr, promise, pc, hidx, hdone, hsnap,
                   turn, handlerCalls, listening, replied, memo, hShim, results,
                   result, log, returned, extraReply, firstReply,
                   cancelAt, reExecuted, arr>>
    /\ UNCHANGED auxVars
    /\ UNCHANGED <<hasHandler, rejections, cancelEvents, handlerPosts>>
    /\ UNCHANGED <<params, startParams, execArgs>>
    /\ UNCHANGED <<postStages, hookArgs>>

\* .tap(r => this._setResult(r)), then the post-hook chain is built
SetResult ==
    /\ turn = "idle"
    /\ pc = "awaitReply"
    /\ inner.st = "resolved"
    /\ result' = inner.qr
    /\ pc' = "post"
    /\ hidx' = 0
    /\ hdone' = 0
    /\ hsnap' = PostHandlersRead
    /\ UNCHANGED <<cancelled, nPre, nPost, nErr, promise, turn, handlerCalls,
                   listening, replied, memo, hShim, results, immediates, inner,
                   log, returned, extraReply, firstReply,
                   cancelAt, reExecuted, arr>>
    /\ UNCHANGED auxVars
    /\ UNCHANGED <<hasHandler, rejections, cancelEvents, handlerPosts>>
    /\ UNCHANGED <<params, startParams, execArgs>>
    /\ UNCHANGED <<postStages, hookArgs>>

\* .catch(err => this._handleError(err)): emits queryError and builds the
\* chain of error handlers
HandleError ==
    /\ turn = "idle"
    /\ pc = "awaitReply"
    /\ inner.st = "rejected"
    /\ log' = EmitQueryError(log, inner.err)
    /\ pc' = "err"
    /\ hidx' = 0
    /\ hdone' = 0
    /\ hsnap' = nErr
    /\ UNCHANGED <<cancelled, nPre, nPost, nErr, promise, turn, handlerCalls,
                   listening, replied, memo, hShim, results, immediates, inner,
                   result, returned, extraReply, firstReply,
                   cancelAt, reExecuted, arr>>
    /\ UNCHANGED auxVars
    /\ UNCHANGED <<hasHandler, rejections, cancelEvents, handlerPosts>>
    /\ UNCHANGED <<params, startParams, execArgs>>
    /\ UNCHANGED <<postStages, hookArgs>>

\* The chain of error handlers has resolved: finally throws the error, which
\* rejects the execute() promise
Rethrow ==
    /\ turn = "idle"
    /\ pc = "err"
    /\ ChainComplete
    /\ promise' = [promise EXCEPT !.st = "rejected",
                                  !.err = RethrowError(inner.err, NoValue)]
    /\ pc' = "done"
    /\ UNCHANGED <<cancelled, nPre, nPost, nErr, hidx, hdone, hsnap, turn,
                   handlerCalls, listening, replied, memo, hShim, results,
                   immediates, inner, result, log, returned, extraReply, firstReply,
                   cancelAt, reExecuted, arr>>
    /\ UNCHANGED auxVars
    /\ UNCHANGED <<hasHandler, rejections, cancelEvents, handlerPosts>>
    /\ UNCHANGED <<params, startParams, execArgs>>
    /\ UNCHANGED <<postStages, hookArgs>>

\* .tap(r => this.emit('result', r)), after which the execute() promise
\* resolves to r
EmitResult ==
    /\ turn = "idle"
    /\ pc = "post"
    /\ ChainComplete
    /\ log' = Append(log, ResultEvent(inner.qr))
    /\ promise' = [promise EXCEPT !.st = "resolved", !.qr = inner.qr]
    /\ pc' = "done"
    /\ UNCHANGED <<cancelled, nPre, nPost, nErr, hidx, hdone, hsnap, turn,
                   handlerCalls, listening, replied, memo, hShim, results,
                   immediates, inner, result, returned, extraReply, firstReply,
                   cancelAt, reExecuted, arr>>
    /\ UNCHANGED auxVars
    /\ UNCHANGED <<hasHandler, rejections, cancelEvents, handlerPosts>>
    /\ UNCHANGED <<params, startParams, execArgs>>
    /\ UNCHANGED <<postStages, hookArgs>>

\* cancel(), called by anyone holding the query, the handler included: sets
\* the flag, emits `cancel` (reply is a listener once the handler has been
\* invoked), then cancels query.result if it is set
Cancel ==
    /\ cancelled' = CancelFlag
    /\ cancelAt' = cancelAt \cup {Phase}
    /\ cancelEvents' = IF EmitsCancel THEN cancelEvents \cup {Phase} ELSE cancelEvents
    /\ LET out == IF listening /\ EmitsCancel
                  THEN ReplyOut(Nil, Nil, cancelled', "cancel")
                  ELSE [replied |-> replied, memo |-> memo, results |-> results,
                        immediates |-> immediates, inner |-> inner,
                        firstReply |-> firstReply]
       IN /\ replied' = out.replied
          /\ memo' = out.memo
          /\ immediates' = out.immediates
          /\ inner' = out.inner
          /\ firstReply' = out.firstReply
          /\ results' = CancelResult(out.results)
    /\ UNCHANGED <<nPre, nPost, nErr, promise, pc, hidx, hdone, hsnap, turn,
                   handlerCalls, listening, hShim, result, log, returned,
                   extraReply, reExecuted, arr>>
    /\ UNCHANGED auxVars
    /\ UNCHANGED <<hasHandler, rejections, handlerPosts>>
    /\ UNCHANGED <<params, startParams, execArgs>>
    /\ UNCHANGED <<postStages, hookArgs>>

\* toArray(): execute().then(r => r.toArray()), reading the stream to its end
ToArray ==
    /\ turn = "idle"
    /\ promise.st = "resolved"
    /\ ~arr.done
    /\ arr' = [done |-> TRUE, recs |-> StreamRecords(results[promise.qr], cancelled),
               stages |-> ThroughHandlersRead]
    /\ UNCHANGED <<cancelled, nPre, nPost, nErr, promise, pc, hidx, hdone, hsnap,
                   turn, handlerCalls, listening, replied, memo, hShim, results,
                   immediates, inner, result, log, returned, extraReply, firstReply,
                   cancelAt, reExecuted>>
    /\ UNCHANGED auxVars
    /\ UNCHANGED <<hasHandler, rejections, cancelEvents, handlerPosts>>
    /\ UNCHANGED <<params, startParams, execArgs>>
    /\ UNCHANGED <<postStages, hookArgs>>

Next ==
    \/ Execute
    \/ EmitExecute
    \/ HookStart
    \/ HookResolve
    \/ HookReject
    \/ ErrHookReject
    \/ InvokeHandler
    \/ HandlerReply
    \/ HandlerSelected
    \/ HandlerPost
    \/ HandlerReturn
    \/ HandlerThrow
    \/ HandlerWake
    \/ RunImmediate
    \/ SetResult
    \/ HandleError
    \/ Rethrow
    \/ EmitResult
    \/ Cancel
    \/ ToArray

Spec == Init /\ [][Next]_vars

\* ------------------------------------------------------------- ParamSpec
\* The lifecycle of a Query with one hook of each kind, whose callers pass
\* params to execute()
ParamInit ==
    /\ QueryRest
    /\ nPre = 1
    /\ nPost = 1
    /\ nErr = 1
    /\ hasHandler \in BOOLEAN
    /\ execArgs = {NoValue} \cup ParamVals
    /\ hookArgs = {FALSE}
    /\ ConfigRest
    /\ StreamRest
    /\ FieldRest
    /\ CacheRest
    /\ FrameRest
    /\ PipeRest

ParamSpec == ParamInit /\ [][Next]_vars

\* ------------------------------------------------------------- HookSpec
\* The lifecycle of a Query whose post-hooks may put stages first among
\* the through handlers of the result
HookInit ==
    /\ QueryRest
    /\ nPre \in 0..1
    /\ nPost \in 1..MaxHooks
    /\ nErr = nPost
    /\ hasHandler \in BOOLEAN
    /\ execArgs = {NoValue}
    /\ hookArgs = BOOLEAN
    /\ ConfigRest
    /\ StreamRest
    /\ FieldRest
    /\ CacheRest
    /\ FrameRest
    /\ PipeRest

HookSpec == HookInit /\ [][Next]_vars

\* ------------------------------------------------------------- ConfigSpec
\* configure(defn) on a new Query or on one configured before
ConfigInit ==
    /\ QueryRest
    /\ nPre = 0
    /\ nPost = 0
    /\ nErr = 0
    /\ hasHandler = FALSE
    /\ execArgs = {NoValue}
    /\ hookArgs = {FALSE}
    /\ qconf \in {NewQuery, ConfiguredQuery}
    /\ lastCall = NoCall
    /\ StreamRest
    /\ FieldRest
    /\ CacheRest
    /\ FrameRest
    /\ PipeRest

\* configure(defn): joi.attempt throws when the definition does not satisfy
\* the schema, before anything is written
Configure ==
    /\ ~lastCall.made
    /\ \E d \in Definitions :
         IF SchemaValid(d)
         THEN /\ qconf' = Assigned(qconf, d)
              /\ lastCall' = [made |-> TRUE, defn |-> d, threw |-> FALSE, before |-> qconf]
         ELSE /\ qconf' = qconf
              /\ lastCall' = [made |-> TRUE, defn |-> d, threw |-> TRUE, before |-> qconf]
    /\ UNCHANGED notConfVars

ConfigNext == Configure

ConfigSpec == ConfigInit /\ [][ConfigNext]_vars


\* ------------------------------------------------------------- claims
\* C1: however execute(), stream() and toArray() are called and interleaved
\* on one configured Query, the handler is invoked at most once and every
\* call returns the one promise stored in query._promise.
C1_SingleExecution ==
    /\ handlerCalls <= 1
    /\ Cardinality(returned) <= 1
    /\ returned \subseteq {promise.id}
    /\ Count("handler", 0, "start") = handlerCalls

\* execute() was called again while an execution was in flight or complete,
\* and the execution ran its handler to a settled promise.
C1_Witness ==
    /\ reExecuted
    /\ handlerCalls = 1
    /\ promise.st \in {"resolved", "rejected"}

\* C6: query.cancelled and the cancelled flag of every QueryResult never go
\* back from true to false, whatever operation runs next.
C6_CancelledMonotonic ==
    [][/\ cancelled => cancelled'
       /\ Len(results') >= Len(results)
       /\ \A i \in 1..Len(results) :
            results[i].cancelled => results'[i].cancelled]_vars

\* A cancelled query with a cancelled result, cancelled a second time after
\* the execution has completed and the result has been read.
C6_Witness ==
    /\ cancelled
    /\ Cardinality(cancelAt) >= 2
    /\ pc = "done"
    /\ arr.done
    /\ result # 0
    /\ results[result].cancelled


\* The continuations of the execute() chain that need nothing from the
\* handler: one of them being enabled means the chain is not stuck.
ChainStep ==
    \/ EmitExecute
    \/ HookStart
    \/ HookResolve
    \/ InvokeHandler
    \/ RunImmediate
    \/ SetResult
    \/ EmitResult

HookFailed == \E n \in 1..Len(log) : log[n].ph = "fail" /\ log[n].k \in {"pre", "post"}
HandlerThrew == \E n \in 1..Len(log) : log[n].k = "throw"

\* C3: when cancel() is called before _invokeHandler has run (before
\* execute(), or while the pre-hooks run), the handler is never invoked; the
\* QueryResult of the execution is cancelled from its construction on; the
\* execute() promise resolves to it (it rejects only with the error of a
\* pre- or post-hook that failed, and is never left waiting on a handler);
\* and toArray() gives no record.
C3_CancelBeforeInvoke ==
    ("early" \in cancelAt) =>
        /\ handlerCalls = 0
        /\ ~listening
        /\ Len(results) <= 1
        /\ \A i \in 1..Len(results) :
             /\ results[i].cancelled /\ results[i].destroyed
             /\ results[i].data = <<>>
        /\ promise.st = "resolved" =>
             /\ promise.qr = 1
             /\ results[1].cancelled
        /\ promise.st = "rejected" => HookFailed /\ promise.err = HookError
        /\ arr.done => arr.recs = <<>>
        /\ (promise.st = "pending" /\ hdone = hidx) => ENABLED ChainStep

\* The query was cancelled before the handler would have been invoked, the
\* execution resolved to its result and toArray() has read it.
C3_Witness ==
    /\ "early" \in cancelAt
    /\ promise.st = "resolved"
    /\ arr.done
    /\ handlerCalls = 0

\* C5: when cancel() is called after the handler has been invoked and before
\* reply has been, the cancel itself builds the QueryResult: it is cancelled
\* from its construction on and has no record; the execute() promise resolves
\* to it without waiting for the handler (it rejects only if the handler
\* throws or a post-hook fails); and whatever the handler passes to reply
\* afterwards neither replaces that result nor is streamed.
C5_CancelBeforeReply ==
    ("mid" \in cancelAt) =>
        /\ Len(results) = 1
        /\ results[1].cancelled /\ results[1].destroyed
        /\ results[1].data = <<>>
        /\ firstReply.by = "cancel"
        /\ StreamRecords(results[1], cancelled) = <<>>
        /\ inner.st = "resolved" => inner.qr = 1
        /\ result \in {0, 1}
        /\ promise.st = "resolved" => promise.qr = 1
        /\ promise.st = "rejected" =>
             \/ HandlerThrew /\ promise.err \in Errors
             \/ HookFailed /\ promise.err = HookError
        /\ arr.done => arr.recs = <<>>
        /\ (promise.st = "pending" /\ turn = "idle" /\ inner.st # "rejected"
              /\ hdone = hidx) => ENABLED ChainStep

\* The query was cancelled between the invocation of the handler and its
\* reply, the handler replied with data afterwards, and the execution
\* resolved and was read.
C5_Witness ==
    /\ "mid" \in cancelAt
    /\ extraReply
    /\ promise.st = "resolved"
    /\ arr.done

\* C4 (as claimed): once cancel() has been called after the handler was
\* invoked, the QueryResult the execution produced is cancelled: its flag is
\* set and its source destroyed.
C4_LateCancelCancelsResult ==
    (/\ cancelAt \cap {"mid", "window", "late"} # {}
     /\ handlerCalls > 0
     /\ ~HandlerThrew) =>
        \A i \in 1..Len(results) : results[i].cancelled /\ results[i].destroyed


\* The error the handler threw, if it did.
ThrownErrors == {log[n].a : n \in {m \in 1..Len(log) : log[m].k = "throw"}}

\* C2 (as claimed): when the handler has called reply more than once,
\* exactly one QueryResult has been constructed.
C2_ExactlyOneResult ==
    (extraReply /\ firstReply.by = "handler" /\ ~HandlerThrew) => Len(results) = 1

\* C2 (amended): only the first invocation of reply has effect.  At most one
\* QueryResult is ever constructed: exactly one, holding the data of the
\* first invocation, when that invocation carries data (or nothing), and
\* none when it carries an Error.  What reply does to the promise of the
\* execution (reject it with the Error, or queue its resolution to that one
\* result) comes from the first invocation, and a later call of reply by the
\* handler leaves the results, their data, the promises and query.result as
\* they are.
C2_FirstReplyOnly ==
    /\ [](/\ Len(results) <= 1
          /\ replied <=> firstReply.arg.t # "none"
          /\ (replied /\ firstReply.arg.t = "err") =>
               /\ results = <<>>
               /\ immediates = <<>>
               /\ inner.st = "rejected"
               /\ inner.err \in {firstReply.arg.e} \cup ThrownErrors
               /\ promise.st # "resolved"
          /\ (replied /\ firstReply.arg.t \in {"data", "nil"}) =>
               /\ Len(results) = 1
               /\ results[1].data = firstReply.arg.d
               /\ \A n \in 1..Len(immediates) : immediates[n] = 1
               /\ inner.st = "resolved" => inner.qr = 1
               /\ inner.st = "rejected" => inner.err \in ThrownErrors
               /\ promise.st = "resolved" => promise.qr = 1
               /\ arr.done => arr.recs \in {results[1].data, <<>>})
    /\ [][(HandlerReply /\ replied) =>
              UNCHANGED <<results, immediates, inner, promise, result, memo,
                          replied, firstReply, arr>>]_vars

\* The handler replied with data, called reply again, and the execution
\* resolved to a result that streamed the data of the first call.
C2_Witness ==
    /\ extraReply
    /\ firstReply.by = "handler"
    /\ firstReply.arg.t = "data"
    /\ promise.st = "resolved"
    /\ arr.done
    /\ arr.recs = firstReply.arg.d

\* C7: reply never resolves the promise of the execution in the turn it is
\* called in (the resolution happens in a later turn of its own), so during
\* the handler's synchronous body the result is still unobserved: what the
\* handler configures through the shim after reply is in the QueryResult
\* before query.result is set, before any post-hook is called and before
\* `result` is emitted or the execute() promise resolves.
C7_ReplyResolvesLater ==
    /\ [](turn = "handler" =>
            /\ inner.st # "resolved"
            /\ result = 0
            /\ promise.st = "pending"
            /\ ~Logged("post", 1, "start")
            /\ ~Logged("result", 0, "emit"))
    /\ [][(inner'.st = "resolved" /\ inner.st # "resolved") =>
              (turn = "idle" /\ turn' = "idle")]_vars
    /\ [][(\/ result' # result
            \/ (promise'.st = "resolved" /\ promise.st # "resolved")
            \/ (Len(log') > Len(log) /\ log'[Len(log')].k \in {"post", "result"})) =>
              (turn = "idle" /\ turn' = "idle" /\ results' = results)]_vars

\* Inside the handler's synchronous body, after reply(data) and a shim
\* selected(10): the result holds the value and its resolution is queued.
C7_Witness ==
    /\ turn = "handler"
    /\ firstReply.by = "handler"
    /\ Len(results) = 1
    /\ results[1].selected = 10
    /\ immediates = <<1>>
    /\ inner.st = "pending"

\* Hook i of chain k was called at most once, with value v, and only after
\* hook i-1 of the chain had resolved.
HookInOrder(k, i, v) ==
    /\ Count(k, i, "start") <= 1
    /\ Logged(k, i, "start") =>
         /\ log[First(k, i, "start")].a = v
         /\ i > 1 => /\ Logged(k, i - 1, "end")
                     /\ First(k, i - 1, "end") < First(k, i, "start")
    /\ Logged(k, i, "end") =>
         /\ Logged(k, i, "start")
         /\ First(k, i, "start") < First(k, i, "end")

\* C8: the pre-hooks are called after `execute` is emitted, in registration
\* order, each with the Query and each only once the previous one has
\* resolved; the handler is invoked only after the last of them has resolved.
C8_PreHooksSequential ==
    /\ \A i \in 1..(MaxHooks + 1) :
         /\ HookInOrder("pre", i, "query")
         /\ Logged("pre", i, "start") =>
              /\ i <= nPre
              /\ Logged("execute", 0, "emit")
              /\ First("execute", 0, "emit") < First("pre", i, "start")
    /\ (handlerCalls > 0 \/ results # <<>>) =>
         \A i \in 1..nPre : Logged("pre", i, "end")
    /\ Logged("handler", 0, "start") =>
         \A i \in 1..nPre : First("pre", i, "end") < First("handler", 0, "start")

\* Two pre-hooks have run and the handler has been invoked.
C8_Witness ==
    /\ nPre = 2
    /\ handlerCalls = 1
    /\ Logged("pre", 2, "end")

\* C9: the post-hooks are called only once the QueryResult exists and is
\* stored on query.result, in registration order, each with that
\* QueryResult and each only once the previous one has resolved; `result` is
\* emitted, and the execute() promise resolves, only after the last of them
\* has resolved.
C9_PostHooksSequential ==
    /\ \A i \in 1..(MaxHooks + 1) :
         /\ HookInOrder("post", i, "result")
         /\ Logged("post", i, "start") =>
              /\ i <= nPost
              /\ result \in 1..Len(results)
              /\ log[First("post", i, "start")].q = result
    /\ Logged("result", 0, "emit") =>
         /\ Count("result", 0, "emit") = 1
         /\ log[First("result", 0, "emit")].q = result
         /\ \A i \in 1..nPost :
              /\ Logged("post", i, "end")
              /\ First("post", i, "end") < First("result", 0, "emit")
    /\ promise.st = "resolved" =>
         /\ Logged("result", 0, "emit")
         /\ promise.qr = result
         /\ result \in 1..Len(results)

\* The handler replied with data, two post-hooks ran and the promise resolved.
C9_Witness ==
    /\ nPost = 2
    /\ firstReply.by = "handler"
    /\ firstReply.arg.t = "data"
    /\ Logged("post", 2, "end")
    /\ promise.st = "resolved"

ErrHandlerFailed == \E n \in 1..Len(log) : log[n].ph = "fail" /\ log[n].k = "err"

\* C10: when the handler throws E or replies with the Error E, the error
\* handlers are called in registration order, each at most once, with E, and
\* each only once the previous one has resolved; the execute() promise
\* rejects with E itself, and, unless an error handler failed, only after
\* every error handler has been called and has resolved.
C10_ErrorHandlerChain ==
    /\ Logged("queryError", 0, "emit") =>
         /\ inner.st = "rejected"
         /\ inner.err \in Errors
         /\ inner.err \in ThrownErrors \cup
              (IF firstReply.arg.t = "err" THEN {firstReply.arg.e} ELSE {})
    /\ \A i \in 1..(MaxHooks + 1) :
         /\ HookInOrder("err", i, inner.err)
         /\ Logged("err", i, "start") =>
              (i <= nErr /\ Logged("queryError", 0, "emit"))
    /\ (promise.st = "rejected" /\ inner.st = "rejected") =>
         /\ promise.err = inner.err
         /\ (ErrHandlerFailed \/ \A i \in 1..nErr : Logged("err", i, "end"))
    /\ (inner.st = "rejected" /\ pc = "done") => promise.st = "rejected"

\* The handler failed with E1, two error handlers ran to completion and the
\* promise rejected with E1.
C10_Witness ==
    /\ nErr = 2
    /\ Logged("err", 2, "end")
    /\ promise.st = "rejected"
    /\ promise.err = "E1"

\* ------------------------------------------------------------- StreamSpec
\* A QueryResult as its constructor leaves it, for every limit, every
\* source (finite or unbounded, failing or not), built on a query that is
\* cancelled already or not
StreamInit ==
    /\ QueryRest
    /\ nPre = 0
    /\ nPost = 0
    /\ nErr = 0
    /\ hasHandler = TRUE
    /\ execArgs = {NoValue}
    /\ hookArgs = {FALSE}
    /\ ConfigRest
    /\ FieldRest
    /\ CacheRest
    /\ FrameRest
    /\ PipeRest
    /\ limit \in -1..MaxRecords
    /\ srcLen \in -1..MaxRecords
    /\ srcErrAt \in -1..MaxRecords
    /\ qCancelled \in BOOLEAN
    /\ rCancelled = qCancelled
    /\ destroyed = qCancelled
    /\ outAtCancel = IF qCancelled THEN 0 ELSE -1
    /\ drawn = 0
    /\ srcDone = FALSE
    /\ piped = FALSE
    /\ pt = <<>>
    /\ ptEnded = FALSE
    /\ endFired = 0
    /\ sourceErr = NoValue
    /\ pullPending = FALSE
    /\ pushed = <<>>
    /\ cstate = "none"
    /\ errorsSeen = 0
    /\ arrRes = NoArr
    /\ asyncThrough \in BOOLEAN
    /\ held = 0
    /\ again = NotAgain
    /\ qNotified = qCancelled

\* toArray() calls stream(): the error listener is set, _source is piped
\* into _passthrough, the flow and the Readable around it are built, and the
\* consumer starts to read
StreamCall ==
    /\ ~piped
    /\ piped' = TRUE
    /\ cstate' = "open"
    /\ arrRes' = [st |-> "pending", recs |-> <<>>, err |-> NoValue]
    /\ UNCHANGED <<limit, srcLen, srcErrAt, qCancelled, rCancelled, destroyed, drawn,
                   srcDone, pt, ptEnded, endFired, sourceErr, pullPending, pushed,
                   errorsSeen, outAtCancel, asyncThrough, held>>
    /\ UNCHANGED <<again, qNotified>>
    /\ UNCHANGED notStreamVars

\* `_source.pipe(_passthrough)`: the pipe draws the next event of _source
\* for as long as _passthrough takes it.  A record passes the filter
\* `!query.cancelled` and is written to _passthrough, where a pending pull
\* takes it at once, through the through handlers: synchronous ones hand it
\* to the callback of the pull in the same step, an asynchronous stage
\* keeps it for a while.  An error goes to the listener that keeps it in
\* _sourceErr, not to _passthrough; nil ends _passthrough.
PipeStep ==
    /\ piped
    /\ ~srcDone
    /\ Len(pt) < MaxBuffered
    /\ NextEvent = "record" => drawn < MaxRecords + 1
    /\ IF NextEvent = "nil"
       THEN /\ srcDone' = TRUE
            /\ ptEnded' = TRUE
            /\ UNCHANGED <<drawn, pt, sourceErr, pullPending, pushed, cstate,
                           errorsSeen, arrRes, held>>
       ELSE IF NextEvent = "error"
       THEN /\ sourceErr' = SourceError
            /\ UNCHANGED <<drawn, srcDone, ptEnded, pt, pullPending, pushed, cstate,
                           errorsSeen, arrRes, held>>
       ELSE /\ drawn' = drawn + 1
            /\ UNCHANGED <<srcDone, ptEnded, sourceErr>>
            /\ IF qCancelled
               THEN UNCHANGED <<pt, pullPending, pushed, cstate, errorsSeen, arrRes,
                                held>>
               ELSE IF pullPending /\ held = 0 /\ asyncThrough
               THEN /\ held' = drawn + 1
                    /\ UNCHANGED <<pt, pullPending, pushed, cstate, errorsSeen,
                                   arrRes>>
               ELSE IF pullPending /\ held = 0
               THEN LET c == PullCallback(drawn + 1) IN
                      /\ pushed' = c.out
                      /\ cstate' = c.cstate
                      /\ errorsSeen' = c.errorsSeen
                      /\ arrRes' = c.arrRes
                      /\ pullPending' = FALSE
                      /\ UNCHANGED <<pt, held>>
               ELSE /\ pt' = Append(pt, drawn + 1)
                    /\ UNCHANGED <<pullPending, pushed, cstate, errorsSeen, arrRes,
                                   held>>
    /\ UNCHANGED <<limit, srcLen, srcErrAt, qCancelled, rCancelled, destroyed,
                   piped, endFired, outAtCancel, asyncThrough>>
    /\ UNCHANGED <<again, qNotified>>
    /\ UNCHANGED notStreamVars

\* _passthrough, ended and read to its last record, emits `end`, once: the
\* listeners registered through the shim run, the flow ends, and a pending
\* pull gets nil, after the record an asynchronous stage still holds
PassthroughEnd ==
    /\ piped
    /\ ptEnded
    /\ pt = <<>>
    /\ endFired = 0
    /\ endFired' = endFired + 1
    /\ IF pullPending /\ held = 0
       THEN LET c == PullCallback(0) IN
              /\ pushed' = c.out
              /\ cstate' = c.cstate
              /\ errorsSeen' = c.errorsSeen
              /\ arrRes' = c.arrRes
              /\ pullPending' = FALSE
       ELSE UNCHANGED <<pullPending, pushed, cstate, errorsSeen, arrRes>>
    /\ UNCHANGED <<limit, srcLen, srcErrAt, qCancelled, rCancelled, destroyed, drawn,
                   srcDone, piped, pt, ptEnded, sourceErr, outAtCancel, asyncThrough,
                   held>>
    /\ UNCHANGED <<again, qNotified>>
    /\ UNCHANGED notStreamVars

\* read() of the Readable stream() returns, called when the consumer wants
\* the next record
Read ==
    /\ cstate = "open"
    /\ ~pullPending
    /\ IF sourceErr # NoValue
       THEN /\ cstate' = "errored"
            /\ errorsSeen' = errorsSeen + 1
            /\ arrRes' = Rejected(sourceErr)
            /\ UNCHANGED <<srcDone, ptEnded, pt, pullPending, pushed, held>>
       ELSE IF ReadSeesCancel
       THEN /\ cstate' = "ended"
            /\ arrRes' = Resolved(pushed)
            /\ IF ~srcDone /\ Len(pt) < MaxBuffered
               THEN srcDone' = TRUE /\ ptEnded' = TRUE
               ELSE UNCHANGED <<srcDone, ptEnded>>
            /\ UNCHANGED <<pt, pullPending, pushed, errorsSeen, held>>
       ELSE IF pt # <<>> /\ asyncThrough
       THEN /\ held' = Head(pt)
            /\ pt' = Tail(pt)
            /\ pullPending' = TRUE
            /\ UNCHANGED <<srcDone, ptEnded, pushed, cstate, errorsSeen, arrRes>>
       ELSE IF pt # <<>>
       THEN LET c == PullCallback(Head(pt)) IN
              /\ pushed' = c.out
              /\ cstate' = c.cstate
              /\ errorsSeen' = c.errorsSeen
              /\ arrRes' = c.arrRes
              /\ pt' = Tail(pt)
              /\ UNCHANGED <<srcDone, ptEnded, pullPending, held>>
       ELSE IF endFired > 0
       THEN LET c == PullCallback(0) IN
              /\ pushed' = c.out
              /\ cstate' = c.cstate
              /\ errorsSeen' = c.errorsSeen
              /\ arrRes' = c.arrRes
              /\ UNCHANGED <<srcDone, ptEnded, pt, pullPending, held>>
       ELSE /\ pullPending' = TRUE
            /\ UNCHANGED <<srcDone, ptEnded, pt, pushed, cstate, errorsSeen, arrRes,
                           held>>
    /\ UNCHANGED <<limit, srcLen, srcErrAt, qCancelled, rCancelled, destroyed, drawn,
                   piped, endFired, sourceErr, outAtCancel, asyncThrough>>
    /\ UNCHANGED <<again, qNotified>>
    /\ UNCHANGED notStreamVars

\* The asynchronous stage of the through handlers lets go of the record it
\* holds: the flow hands it to the callback of the pending pull
ThroughEmit ==
    /\ held # 0
    /\ LET c == PullCallback(held) IN
         /\ pushed' = c.out
         /\ cstate' = c.cstate
         /\ errorsSeen' = c.errorsSeen
         /\ arrRes' = c.arrRes
    /\ held' = 0
    /\ pullPending' = FALSE
    /\ UNCHANGED <<limit, srcLen, srcErrAt, qCancelled, rCancelled, destroyed, drawn,
                   srcDone, piped, pt, ptEnded, endFired, sourceErr, outAtCancel,
                   asyncThrough>>
    /\ UNCHANGED <<again, qNotified>>
    /\ UNCHANGED notStreamVars

\* stream() (or toArray()) is called again on the result.  The records that
\* have left _passthrough by then, pushed to the first consumer or inside a
\* through handler, are in neither _source nor _passthrough any more.  The
\* first sequence is followed as if the second call had left it alone.
StreamCallAgain ==
    /\ piped
    /\ again.st = "none"
    /\ \E o \in SecondCallOutcomes :
         again' = [st |-> o, missed |-> Len(pushed) + (IF held # 0 THEN 1 ELSE 0)]
    /\ UNCHANGED <<limit, srcLen, srcErrAt, qCancelled, rCancelled, destroyed, drawn,
                   srcDone, piped, pt, ptEnded, endFired, sourceErr, pullPending,
                   pushed, cstate, errorsSeen, arrRes, outAtCancel, asyncThrough,
                   held, qNotified>>
    /\ UNCHANGED notStreamVars

\* QueryResult.cancel()
ResultCancel ==
    /\ rCancelled' = TRUE
    /\ destroyed' = TRUE
    /\ outAtCancel' = IF outAtCancel = -1 THEN Len(pushed) ELSE outAtCancel
    /\ UNCHANGED <<limit, srcLen, srcErrAt, qCancelled, drawn, srcDone, piped, pt,
                   ptEnded, endFired, sourceErr, pullPending, pushed, cstate,
                   errorsSeen, arrRes, asyncThrough, held>>
    /\ UNCHANGED <<again, qNotified>>
    /\ UNCHANGED notStreamVars

\* Query.cancel() once query.result is set: the flag of the query, then
\* QueryResult.cancel()
QueryCancelResult ==
    /\ qCancelled' = TRUE
    /\ qNotified' = TRUE
    /\ rCancelled' = TRUE
    /\ destroyed' = TRUE
    /\ outAtCancel' = IF outAtCancel = -1 THEN Len(pushed) ELSE outAtCancel
    /\ UNCHANGED <<limit, srcLen, srcErrAt, drawn, srcDone, piped, pt,
                   ptEnded, endFired, sourceErr, pullPending, pushed, cstate,
                   errorsSeen, arrRes, asyncThrough, held>>
    /\ UNCHANGED again
    /\ UNCHANGED notStreamVars

StreamNext ==
    \/ StreamCall
    \/ PipeStep
    \/ PassthroughEnd
    \/ Read
    \/ ThroughEmit
    \/ StreamCallAgain
    \/ ResultCancel
    \/ QueryCancelResult

StreamSpec == StreamInit /\ [][StreamNext]_vars

\* C11: when the handler fails (it throws, or replies with an Error),
\* `queryError` is emitted exactly once, with the error the handler failed
\* with, and before the first error handler is called; an execution whose
\* handler succeeded never emits it.
C11_QueryErrorOnce ==
    /\ Count("queryError", 0, "emit") <= 1
    /\ Logged("queryError", 0, "emit") <=> (inner.st = "rejected" /\ pc \in {"err", "done"})
    /\ Logged("queryError", 0, "emit") =>
         /\ log[First("queryError", 0, "emit")].a = inner.err
         /\ inner.err \in ThrownErrors \cup
              (IF firstReply.arg.t = "err" THEN {firstReply.arg.e} ELSE {})
    /\ \A i \in 1..MaxHooks + 1 :
         Logged("err", i, "start") =>
            /\ Logged("queryError", 0, "emit")
            /\ First("queryError", 0, "emit") < First("err", i, "start")
    /\ (promise.st = "resolved" \/ result # 0 \/ inner.st = "resolved") =>
         ~Logged("queryError", 0, "emit")

\* The handler threw E2, `queryError` was emitted with E2 and the second
\* error handler has been called.
C11_Witness ==
    /\ HandlerThrew
    /\ Logged("queryError", 0, "emit")
    /\ log[First("queryError", 0, "emit")].a = "E2"
    /\ Logged("err", 2, "start")

\* What the listeners and hooks of the query observe: the log without the
\* record of how the handler failed.
ObservableLog == SelectSeq(log, LAMBDA e : e.k # "throw")

\* Hooks 1..n of chain k, each called with v and resolved before the next.
HookRun(k, n, v) ==
    [j \in 1..(2 * n) |->
        IF j % 2 = 1 THEN Entry(k, (j + 1) \div 2, "start", v, 0)
        ELSE Entry(k, j \div 2, "end", NoValue, 0)]

\* The one course a failed execution takes, for the error e.
FailureLog(e) ==
    <<Entry("execute", 0, "emit", NoValue, 0)>> \o HookRun("pre", nPre, "query")
    \o <<Entry("handler", 0, "start", NoValue, 0), Entry("queryError", 0, "emit", e, 0)>>
    \o HookRun("err", nErr, e)

\* C12: a handler that throws E and a handler that replies with the Error E
\* both reject the promise of _invokeHandler with E, and from there the
\* execution takes one and the same course, which depends on E alone:
\* query.result stays unset, no post-hook is called, `result` is not
\* emitted, and (when no error handler fails) the events and hook calls are
\* execute, the pre-hooks, the handler, queryError(E), the error handlers
\* with E, in this order, and execute() rejects with E.
C12_ThrowEqualsReplyError ==
    /\ HandlerThrew => inner.st = "rejected"
    /\ firstReply.arg.t = "err" => inner.st = "rejected"
    /\ (firstReply.arg.t = "err" /\ ~HandlerThrew) => inner.err = firstReply.arg.e
    /\ (HandlerThrew /\ firstReply.arg.t # "err") => inner.err \in ThrownErrors
    /\ inner.st = "rejected" =>
         /\ result = 0
         /\ promise.st # "resolved"
         /\ \A n \in 1..Len(log) : log[n].k \notin {"post", "result"}
    /\ (inner.st = "rejected" /\ pc = "done") =>
         /\ promise.st = "rejected"
         /\ promise.err = inner.err
         /\ ~ErrHandlerFailed => ObservableLog = FailureLog(inner.err)

\* The handler replied with the Error E1 without throwing, and the
\* execution ran its two pre-hooks and two error handlers and rejected.
C12_Witness ==
    /\ firstReply.arg = ErrV("E1")
    /\ ~HandlerThrew
    /\ nPre = 2
    /\ nErr = 2
    /\ pc = "done"
    /\ ~ErrHandlerFailed
    /\ promise.err = "E1"

\* The scheduling the event loop guarantees: callbacks are served in the
\* order they were queued, so a continuation of the execute() chain that is
\* ready again and again does run, however many callbacks of the handler
\* run in between; the handler's synchronous body comes to an end; and a
\* hook that was called settles.  Nothing obliges the handler to call reply,
\* nor anyone to call cancel().
LiveSpec ==
    /\ Spec
    /\ SF_vars(EmitExecute) /\ SF_vars(HookStart) /\ SF_vars(InvokeHandler)
    /\ SF_vars(RunImmediate) /\ SF_vars(SetResult) /\ SF_vars(HandleError)
    /\ SF_vars(Rethrow) /\ SF_vars(EmitResult)
    /\ WF_vars(HandlerReturn \/ HandlerThrow)
    /\ SF_vars(HookResolve \/ HookReject \/ ErrHookReject)

\* C13 (as claimed): the promise of every started execution eventually
\* resolves or rejects, also when the handler returns without calling reply.
C13_EventuallySettles ==
    [](promise.st = "pending" => <>(promise.st # "pending"))

C20_NoHandlerRejects ==
    /\ rejections \subseteq {"No handler defined"}
    /\ hasHandler => rejections = {}
    /\ ~hasHandler =>
         /\ promise = NoPromise
         /\ returned = {}
         /\ log = <<>>
         /\ pc = "created"
         /\ handlerCalls = 0
         /\ results = <<>>
         /\ result = 0

\* execute() has been called on a Query that has two pre-hooks and no
\* handler.
C20_Witness ==
    /\ ~hasHandler
    /\ nPre = 2
    /\ rejections = {"No handler defined"}

FirstRecords(n) == [i \in 1..n |-> i]

\* min(N, M) for the limit N >= 0 and a source of M records (-1: unbounded).
MinLimitSource ==
    IF srcLen = -1 \/ limit < srcLen THEN limit ELSE srcLen

\* The steps the stream takes by itself, without its consumer's doing.
StreamStep == PipeStep \/ PassthroughEnd \/ Read \/ ThroughEmit

\* C14: with a limit N >= 0 and a source of M records (M unbounded
\* included), on a result that is not cancelled and whose source raises no
\* error within its first min(N, M) records: the consumer gets the records
\* in source order and never more than min(N, M) of them, no more than N
\* records are drawn from the source, toArray() resolves to exactly the
\* first min(N, M) records, the `end` listener has run exactly once by then
\* and never runs twice, and until then the stream is never stuck.
C14_LimitTruncates ==
    (/\ limit >= 0
     /\ ~rCancelled
     /\ srcErrAt = -1 \/ srcErrAt >= MinLimitSource + (IF MinLimitSource = limit THEN 0 ELSE 1)) =>
        /\ pushed = FirstRecords(Len(pushed))
        /\ Len(pushed) <= MinLimitSource
        /\ drawn <= limit
        /\ endFired <= 1
        /\ arrRes.st # "rejected"
        /\ arrRes.st = "resolved" =>
             /\ arrRes.recs = FirstRecords(MinLimitSource)
             /\ endFired = 1
        /\ cstate = "open" => ENABLED StreamStep

\* toArray() on an unbounded source with limit 2 resolved to the first two
\* records and the `end` listener ran once.
C14_Witness ==
    /\ limit = 2
    /\ srcLen = -1
    /\ arrRes = Resolved(<<1, 2>>)
    /\ endFired = 1

\* C16: once cancel() has been called on a QueryResult, directly or through
\* its Query, its stream pushes no further record to the consumer, neither
\* a record the source produces afterwards nor one that was in flight at
\* the time of the cancel (written to _passthrough, or inside a through
\* handler); the stream does not stay open, and it ends without an error
\* unless the source itself had raised one; toArray() resolves to the
\* records pushed before the cancel.
C16_NoRecordAfterCancel ==
    rCancelled =>
        /\ destroyed
        /\ Len(pushed) = outAtCancel
        /\ cstate = "errored" => sourceErr # NoValue
        /\ arrRes.st = "rejected" => (sourceErr # NoValue /\ arrRes.err = sourceErr)
        /\ arrRes.st = "resolved" => arrRes.recs = pushed
        /\ cstate = "open" => ENABLED StreamStep

\* ------------------------------------------------------------- FieldSpec
\* The field map of a QueryResult: `this.fields = _.assign({}, query.fields)`
\* in the constructor, for a Query configured with any of the field maps
FieldInit ==
    /\ QueryRest
    /\ nPre = 0
    /\ nPost = 0
    /\ nErr = 0
    /\ hasHandler = TRUE
    /\ execArgs = {NoValue}
    /\ hookArgs = {FALSE}
    /\ ConfigRest
    /\ StreamRest
    /\ CacheRest
    /\ FrameRest
    /\ PipeRest
    /\ qfields \in [FieldNames -> QueryEntries]
    /\ rfields = qfields
    /\ fcall = NoFieldCall
    /\ fcount = 0

\* The handler calls fields(value) on the shim reply returned
ShimFieldsCall ==
    /\ fcount < MaxFieldCalls
    /\ \E v \in FieldValues :
         /\ rfields' = ShimFields(rfields, v)
         /\ fcall' = [op |-> "fields", value |-> v, field |-> NoValue,
                      method |-> NoValue, before |-> rfields, threw |-> FALSE]
    /\ fcount' = fcount + 1
    /\ UNCHANGED qfields
    /\ UNCHANGED notFieldVars

\* QueryResult.fieldDefaults(defaults)
FieldDefaultsCall ==
    /\ fcount < MaxFieldCalls
    /\ \E d \in [FieldNames -> GivenEntries] :
         /\ rfields' = FieldDefaults(rfields, d)
         /\ fcall' = [op |-> "fieldDefaults", value |-> d, field |-> NoValue,
                      method |-> NoValue, before |-> rfields, threw |-> FALSE]
    /\ fcount' = fcount + 1
    /\ UNCHANGED qfields
    /\ UNCHANGED notFieldVars

\* result.field(f) or shim.field(f) gives a FieldConfigurator, on which
\* label(), position() or type() is called
ConfiguratorCall ==
    /\ fcount < MaxFieldCalls
    /\ \E f \in FieldNames, m \in ConfigMethods :
         LET o == ConfiguratorOutcome(rfields, f, ConfigOf(m)) IN
           /\ rfields' = o.fields
           /\ fcall' = [op |-> "configure", value |-> NoFields, field |-> f,
                        method |-> m, before |-> rfields, threw |-> o.threw]
    /\ fcount' = fcount + 1
    /\ UNCHANGED qfields
    /\ UNCHANGED notFieldVars

FieldNext ==
    \/ ShimFieldsCall
    \/ FieldDefaultsCall
    \/ ConfiguratorCall

FieldSpec == FieldInit /\ [][FieldNext]_vars

\* ------------------------------------------------------------- CacheSpec
\* One cachedHandler over an empty redis, run for one query after another.
CacheInit ==
    /\ QueryRest
    /\ nPre = 0
    /\ nPost = 0
    /\ nErr = 0
    /\ hasHandler = TRUE
    /\ execArgs = {NoValue}
    /\ hookArgs = {FALSE}
    /\ ConfigRest
    /\ StreamRest
    /\ FieldRest
    /\ CacheRest
    /\ FrameRest
    /\ PipeRest

\* The function cachedHandler returns is called with a query: it takes the
\* key and the signature of the query and sends the read to redis
CachedHandlerCall ==
    /\ cpc \in {"idle", "done"}
    /\ runs < MaxCacheRuns
    /\ \E k \in CacheKeys, g \in Signatures : cq' = [key |-> k, sig |-> g]
    /\ cpc' = "reading"
    /\ replies' = NoReplies
    /\ invoked' = 0
    /\ creply' = NoReply
    /\ wcount' = 0
    /\ hrecs' = 0
    /\ runs' = runs + 1
    /\ UNCHANGED store
    /\ UNCHANGED notCacheVars

\* redis runs the four commands of the read as one transaction and answers
\* them, or the read fails
CacheExec ==
    /\ cpc = "reading"
    /\ \E failed \in BOOLEAN :
         replies' = IF failed THEN ReadError ELSE RepliesOf(store[cq.key])
    /\ cpc' = "answered"
    /\ UNCHANGED <<store, cq, invoked, creply, wcount, hrecs, runs>>
    /\ UNCHANGED notCacheVars

\* The callback of the read: invokeHandler() on an error, on a missing
\* entry and on another hash, the reply from the cache otherwise.
\* invokeHandler() puts cacheResult first among the post-hooks of the query
\* and calls the wrapped handler.
CacheCallback ==
    /\ cpc = "answered"
    /\ IF ~replies.err /\ CacheHit(replies, cq.sig)
       THEN /\ creply' = CachedReply(cq.key, replies)
            /\ cpc' = "hit"
            /\ UNCHANGED invoked
       ELSE /\ invoked' = invoked + 1
            /\ cpc' = "handling"
            /\ UNCHANGED creply
    /\ UNCHANGED <<store, cq, replies, wcount, hrecs, runs>>
    /\ UNCHANGED notCacheVars

\* The wrapped handler replies with its own records, selected count and
\* fields
WrappedHandlerReply ==
    /\ cpc = "handling"
    /\ \E sel \in WrappedSelected, f \in CacheFieldMaps, n \in 0..MaxCacheRecords :
         /\ creply' = [src |-> "handler", key |-> RedisNil, selected |-> sel, fields |-> f]
         /\ hrecs' = n
    /\ cpc' = "caching"
    /\ UNCHANGED <<store, cq, replies, invoked, wcount, runs>>
    /\ UNCHANGED notCacheVars

\* cacheResult(result), the post-hook: the write stream goes first among
\* the through handlers of the result, and selected, fields and hash are
\* written under the key in one transaction; a failed write is logged and
\* the hook resolves all the same
CacheResult ==
    /\ cpc = "caching"
    /\ \E failed \in BOOLEAN :
         store' = IF failed THEN store
                  ELSE [store EXCEPT ![cq.key] =
                          [@ EXCEPT !.exists = TRUE,
                                    !.selected = ParseIntText(creply.selected),
                                    !.fields = StringifyFields(creply.fields),
                                    !.hash = cq.sig,
                                    !.by = runs]]
    /\ cpc' = "streaming"
    /\ UNCHANGED <<cq, replies, invoked, creply, wcount, hrecs, runs>>
    /\ UNCHANGED notCacheVars

\* RedisWriteStream._transform(record): the record is written under
\* `record:<count>` and `count` is set to the new count
WriteRecord ==
    /\ cpc = "streaming"
    /\ wcount < hrecs
    /\ wcount' = wcount + 1
    /\ store' = [store EXCEPT ![cq.key] =
                   [@ EXCEPT !.exists = TRUE, !.count = wcount + 1,
                             !.recs[wcount + 1] = runs]]
    /\ UNCHANGED <<cq, cpc, replies, invoked, creply, hrecs, runs>>
    /\ UNCHANGED notCacheVars

\* The consumer of the result is done with it
CacheRunEnd ==
    /\ cpc \in {"hit", "streaming"}
    /\ cpc' = "done"
    /\ UNCHANGED <<store, cq, replies, invoked, creply, wcount, hrecs, runs>>
    /\ UNCHANGED notCacheVars

\* redis drops a key whose time has run out (`cmd.expire(key,
\* options.expires)`)
Expire ==
    /\ \E k \in CacheKeys :
         /\ store[k].exists
         /\ store' = [store EXCEPT ![k] = NoEntry]
    /\ UNCHANGED <<cq, cpc, replies, invoked, creply, wcount, hrecs, runs>>
    /\ UNCHANGED notCacheVars

CacheNext ==
    \/ CachedHandlerCall
    \/ CacheExec
    \/ CacheCallback
    \/ WrappedHandlerReply
    \/ CacheResult
    \/ WriteRecord
    \/ CacheRunEnd
    \/ Expire

CacheSpec == CacheInit /\ [][CacheNext]_vars

\* ------------------------------------------------------------- FrameSpec
\* A Query configured with a field map and through handlers, and the
\* QueryResult its constructor has just built from it
FrameInit ==
    /\ QueryRest
    /\ nPre = 0
    /\ nPost = 0
    /\ nErr = 0
    /\ hasHandler = TRUE
    /\ execArgs = {NoValue}
    /\ hookArgs = {FALSE}
    /\ ConfigRest
    /\ StreamRest
    /\ FieldRest
    /\ CacheRest
    /\ PipeRest
    /\ \E m \in [FieldNames -> QueryEntries] : fieldObjs = <<m, m>>
    /\ qFieldsRef = 1
    /\ rFieldsRef = NewFieldsObject(qFieldsRef)
    /\ \E a \in {<<>>, <<"t1">>} :
         LET c == NewArray(<<a>>, a) IN
           /\ handlerArrs = c.arrs
           /\ rThroughRef = c.ref
    /\ qThroughRef = 1
    /\ frameOp = NoFrameOp

\* Query.through(h): `this.throughHandlers = this.throughHandlers.concat(h)`
QueryThroughCall ==
    /\ frameOp.n < MaxFrameCalls
    /\ \E h \in ThroughNames :
         LET c == NewArray(handlerArrs, handlerArrs[qThroughRef] \o <<h>>) IN
           /\ handlerArrs' = c.arrs
           /\ qThroughRef' = c.ref
    /\ frameOp' = [op |-> "query.through", n |-> frameOp.n + 1]
    /\ UNCHANGED <<fieldObjs, qFieldsRef, rFieldsRef, rThroughRef>>
    /\ UNCHANGED notFrameVars

\* Query.field(f, fc => fc.label(..)): a FieldConfigurator over this.fields
QueryFieldCall ==
    /\ frameOp.n < MaxFrameCalls
    /\ \E f \in FieldNames, m \in ConfigMethods :
         LET o == ConfiguratorOutcome(fieldObjs[qFieldsRef], f, ConfigOf(m)) IN
           fieldObjs' = [fieldObjs EXCEPT ![qFieldsRef] = o.fields]
    /\ frameOp' = [op |-> "query.field", n |-> frameOp.n + 1]
    /\ UNCHANGED <<qFieldsRef, rFieldsRef, handlerArrs, qThroughRef, rThroughRef>>
    /\ UNCHANGED notFrameVars

\* Query.fieldDefaults(defaults): `_.defaults(this.fields, defaults)`
QueryFieldDefaultsCall ==
    /\ frameOp.n < MaxFrameCalls
    /\ \E d \in [FieldNames -> GivenEntries] :
         fieldObjs' = [fieldObjs EXCEPT ![qFieldsRef] = FieldDefaults(@, d)]
    /\ frameOp' = [op |-> "query.fieldDefaults", n |-> frameOp.n + 1]
    /\ UNCHANGED <<qFieldsRef, rFieldsRef, handlerArrs, qThroughRef, rThroughRef>>
    /\ UNCHANGED notFrameVars

\* QueryResult.through(h): `this.throughHandlers =
\* this.throughHandlers.concat(handlers)`
ResultThroughCall ==
    /\ frameOp.n < MaxFrameCalls
    /\ \E h \in ThroughNames :
         LET c == NewArray(handlerArrs, handlerArrs[rThroughRef] \o <<h>>) IN
           /\ handlerArrs' = c.arrs
           /\ rThroughRef' = c.ref
    /\ frameOp' = [op |-> "result.through", n |-> frameOp.n + 1]
    /\ UNCHANGED <<fieldObjs, qFieldsRef, rFieldsRef, qThroughRef>>
    /\ UNCHANGED notFrameVars

\* QueryResult.field(f, fc => fc.label(..)): a FieldConfigurator over
\* this.fields
ResultFieldCall ==
    /\ frameOp.n < MaxFrameCalls
    /\ \E f \in FieldNames, m \in ConfigMethods :
         LET o == ConfiguratorOutcome(fieldObjs[rFieldsRef], f, ConfigOf(m)) IN
           fieldObjs' = [fieldObjs EXCEPT ![rFieldsRef] = o.fields]
    /\ frameOp' = [op |-> "result.field", n |-> frameOp.n + 1]
    /\ UNCHANGED <<qFieldsRef, rFieldsRef, handlerArrs, qThroughRef, rThroughRef>>
    /\ UNCHANGED notFrameVars

\* QueryResult.fieldDefaults(defaults): `_.defaults(this.fields, defaults)`
ResultFieldDefaultsCall ==
    /\ frameOp.n < MaxFrameCalls
    /\ \E d \in [FieldNames -> GivenEntries] :
         fieldObjs' = [fieldObjs EXCEPT ![rFieldsRef] = FieldDefaults(@, d)]
    /\ frameOp' = [op |-> "result.fieldDefaults", n |-> frameOp.n + 1]
    /\ UNCHANGED <<qFieldsRef, rFieldsRef, handlerArrs, qThroughRef, rThroughRef>>
    /\ UNCHANGED notFrameVars

FrameNext ==
    \/ QueryThroughCall
    \/ QueryFieldCall
    \/ QueryFieldDefaultsCall
    \/ ResultThroughCall
    \/ ResultFieldCall
    \/ ResultFieldDefaultsCall

FrameSpec == FrameInit /\ [][FrameNext]_vars

\* ------------------------------------------------------------- PipeSpec
\* A QueryResult as its constructor leaves it, for every limit, every
\* finite data and every through handler its Query may have
PipeInit ==
    /\ QueryRest
    /\ nPre = 0
    /\ nPost = 0
    /\ nErr = 0
    /\ hasHandler = TRUE
    /\ execArgs = {NoValue}
    /\ hookArgs = {FALSE}
    /\ ConfigRest
    /\ StreamRest
    /\ FieldRest
    /\ CacheRest
    /\ FrameRest
    /\ pData \in 0..MaxPipeRecords
    /\ pLimit \in -1..MaxPipeRecords
    /\ pThrough \in {<<>>} \cup {<<k>> : k \in StageKinds}
    /\ pFlow = <<>>

\* A post-hook puts a stage first among the through handlers of the result,
\* as cacheResult does: `result.throughHandlers.unshift(s => ...)`
PostHookUnshift ==
    /\ pFlow = <<>>
    /\ Len(pThrough) < MaxStages
    /\ \E k \in StageKinds : pThrough' = <<k>> \o pThrough
    /\ UNCHANGED <<pData, pLimit, pFlow>>
    /\ UNCHANGED notPipeVars

\* A post-hook or the caller adds a stage: QueryResult.through(h)
ResultThroughAdd ==
    /\ pFlow = <<>>
    /\ Len(pThrough) < MaxStages
    /\ \E k \in StageKinds : pThrough' = pThrough \o <<k>>
    /\ UNCHANGED <<pData, pLimit, pFlow>>
    /\ UNCHANGED notPipeVars

\* stream() is called and the flow is read to its end
ComposeStream ==
    /\ pFlow = <<>>
    /\ pFlow' = ComposedFlow(FirstRecords(pData), pLimit, pThrough)
    /\ UNCHANGED <<pData, pLimit, pThrough>>
    /\ UNCHANGED notPipeVars

PipeNext ==
    \/ PostHookUnshift
    \/ ResultThroughAdd
    \/ ComposeStream

PipeSpec == PipeInit /\ [][PipeNext]_vars

\* C21: `execute` and `result` are each emitted at most once; `execute` is
\* emitted before the first pre-hook is called; an execution whose promise
\* has resolved has emitted each of them exactly once, `result` carrying
\* the QueryResult the promise resolved to; an execution whose promise has
\* rejected has emitted no `result`; and a repeated call of execute() emits
\* nothing.
C21_ExecuteAndResultOnce ==
    /\ [](/\ Count("execute", 0, "emit") <= 1
          /\ Count("result", 0, "emit") <= 1
          /\ \A i \in 1..(MaxHooks + 1) :
               Logged("pre", i, "start") =>
                  /\ Logged("execute", 0, "emit")
                  /\ First("execute", 0, "emit") < First("pre", i, "start")
          /\ promise.st = "resolved" =>
               /\ Count("execute", 0, "emit") = 1
               /\ Count("result", 0, "emit") = 1
               /\ promise.qr \in 1..Len(results)
               /\ log[First("result", 0, "emit")].q = promise.qr
          /\ promise.st = "rejected" => ~Logged("result", 0, "emit"))
    /\ [][(Execute /\ AlreadyExecuting) => log' = log]_vars

\* execute() was called again on a query with two pre-hooks whose execution
\* resolved to the result of the handler's reply.
C21_Witness ==
    /\ reExecuted
    /\ nPre = 2
    /\ firstReply.by = "handler"
    /\ promise.st = "resolved"
    /\ Logged("result", 0, "emit")

\* C22: after the handler has called fields(map) on the shim, the entry of
\* every field the map names holds, for each key the map sets, the
\* handler's value (also where the Query had declared a default for that
\* key), and for each key the map does not set, the value it held before.
C22_HandlerValueWins ==
    fcall.op = "fields" =>
        \A k \in FieldNames :
            fcall.value[k].present =>
                /\ rfields[k].present
                /\ rfields[k].label =
                     IF fcall.value[k].label # NoValue THEN fcall.value[k].label
                     ELSE fcall.before[k].label
                /\ rfields[k].position =
                     IF fcall.value[k].position # -1 THEN fcall.value[k].position
                     ELSE fcall.before[k].position
                /\ rfields[k].typeMapping =
                     IF fcall.value[k].typeMapping # NoValue
                     THEN fcall.value[k].typeMapping
                     ELSE fcall.before[k].typeMapping

\* C23: fieldDefaults(map) leaves every entry the field map already has as
\* it is, whoever set it, and gives every field name the map lacks the
\* entry of the defaults; a second call with the same map changes nothing.
C23_FieldDefaultsFillsAbsent ==
    [][FieldDefaultsCall =>
         /\ \A k \in FieldNames :
              /\ rfields[k].present => rfields'[k] = rfields[k]
              /\ ~rfields[k].present => rfields'[k] = fcall'.value[k]
         /\ (fcall.op = "fieldDefaults" /\ fcall'.value = fcall.value) =>
              rfields' = rfields]_vars

\* fieldDefaults was called twice with the same map, which names a field
\* the result already had with another entry, and a field it lacked.
C23_Witness ==
    /\ fcall.op = "fieldDefaults"
    /\ fcount >= 2
    /\ fcall.value["first"].present
    /\ fcall.value["last"].present
    /\ qfields["first"].present
    /\ ~qfields["last"].present
    /\ fcall.before = rfields
    /\ rfields["first"] = qfields["first"]
    /\ rfields["first"] # fcall.value["first"]
    /\ rfields["last"] = fcall.value["last"]

\* C24: a call of label(L), position(P) or type(T) on the configurator of a
\* field returns normally and leaves the entry of that field holding the
\* value for the key it sets, with the keys set earlier preserved and the
\* entries of the other fields unchanged (so that the three calls give the
\* same entry in every order).
C24_ConfiguratorSetsKey ==
    fcall.op = "configure" =>
        /\ ~fcall.threw
        /\ rfields[fcall.field].present
        /\ rfields[fcall.field].label =
             IF fcall.method = "label" THEN ConfigOf("label").label
             ELSE fcall.before[fcall.field].label
        /\ rfields[fcall.field].position =
             IF fcall.method = "position" THEN ConfigOf("position").position
             ELSE fcall.before[fcall.field].position
        /\ rfields[fcall.field].typeMapping =
             IF fcall.method = "type" THEN ConfigOf("type").typeMapping
             ELSE fcall.before[fcall.field].typeMapping
        /\ \A k \in FieldNames \ {fcall.field} : rfields[k] = fcall.before[k]

\* C25: a post-hook the handler registers with query.post(fn) in its
\* synchronous body, before or after it calls reply, is part of the
\* post-hook chain of the execution: it is called after the post-hooks
\* registered before it, with the QueryResult, and the execute() promise
\* resolves only once it has been called and has resolved.
C25_HandlerPostHookRuns ==
    \A i \in (nPost - handlerPosts + 1)..nPost :
        /\ Logged("post", i, "start") =>
             /\ log[First("post", i, "start")].a = "result"
             /\ log[First("post", i, "start")].q = result
             /\ result \in 1..Len(results)
        /\ promise.st = "resolved" =>
             /\ Logged("post", i, "end")
             /\ log[First("post", i, "start")].q = promise.qr
             /\ First("post", i, "end") < First("result", 0, "emit")

\* The handler called reply with data and then query.post(fn) on a query
\* that had one post-hook already; both hooks ran and the promise resolved.
C25_Witness ==
    /\ handlerPosts = 1
    /\ nPost = 2
    /\ firstReply.by = "handler"
    /\ firstReply.arg.t = "data"
    /\ Logged("post", 2, "end")
    /\ promise.st = "resolved"

\* C26: once the execution has started, query.params stays as the
\* execute() call that started it left it: a further execute(params') call
\* does not change what the handler, the hooks and later readers see.
C26_ParamsFixedOnceStarted ==
    promise.st # "none" => params = startParams

\* C27: a second call of stream() (or toArray()) on a result gives a
\* sequence that holds every record of the source once.  For that the call
\* must return a sequence, and no record may have left _passthrough before
\* it: this is what the claim requires of the call itself, whatever the
\* two sequences deliver afterwards.
C27_SecondStreamEquivalent ==
    again.st # "none" => (again.st = "returned" /\ again.missed = 0)

\* C28: once cancel() has been called on a QueryResult, its Query is in
\* the cancelled state and has emitted `cancel` to its listeners.
C28_ResultCancelForwards ==
    rCancelled => (qCancelled /\ qNotified)

\* C29: once the callback of the cache read has run for a query, then if
\* the read answered without error an existing entry whose hash is the
\* query's signature, the wrapped handler has not been called and reply()
\* was given the read stream of the query's key, the cached selected count
\* and the parsed cached fields; in every other case (no entry, another
\* hash, a failed read) the wrapped handler has been called exactly once.
C29_Decided == cpc \in {"hit", "handling", "caching", "streaming", "done"}
C29_CacheHitOrHandlerOnce ==
    C29_Decided =>
        IF ~replies.err /\ replies.exists /\ replies.hash = cq.sig
        THEN /\ invoked = 0
             /\ creply.src = "cache"
             /\ creply.key = cq.key
             /\ creply.selected = JsString(replies.selected)
             /\ creply.fields = ParseFields(replies.fields)
        ELSE invoked = 1

\* A second query found what the first one cached, records included
C29_Witness ==
    /\ cpc = "hit"
    /\ runs = 2
    /\ invoked = 0
    /\ creply.src = "cache"
    /\ store[cq.key].count > 0
    /\ creply.fields = {"a"}

\* C35: when an error handler itself fails (it throws, or the promise it
\* returned rejects) while the error E of the handler is being handled, no
\* later error handler is called, and the execute() promise rejects with E,
\* never with the error of the error handler.
C35_FailingErrorHandler ==
    \A i \in 1..(MaxHooks + 1) :
        Logged("err", i, "fail") =>
            /\ inner.st = "rejected"
            /\ pc = "done"
            /\ promise.st = "rejected"
            /\ promise.err = inner.err
            /\ promise.err \in Errors
            /\ promise.err # ErrHandlerError
            /\ \A j \in (i + 1)..(MaxHooks + 1) : ~Logged("err", j, "start")

\* The handler failed with E1, the first of two error handlers failed in
\* turn, and the promise has rejected with E1.
C35_Witness ==
    /\ nErr = 2
    /\ Logged("err", 1, "fail")
    /\ inner.err = "E1"
    /\ promise.st = "rejected"
    /\ promise.err = "E1"

\* C36: when a pre-hook fails (it throws, or the promise it returned
\* rejects), no later pre-hook is called, the handler is never invoked, no
\* QueryResult is constructed, the execute() promise rejects with the error
\* of the hook, `queryError` is not emitted and no error handler is called.
C36_FailingPreHook ==
    \A i \in 1..(MaxHooks + 1) :
        Logged("pre", i, "fail") =>
            /\ \A j \in (i + 1)..(MaxHooks + 1) : ~Logged("pre", j, "start")
            /\ handlerCalls = 0
            /\ ~Logged("handler", 0, "start")
            /\ results = <<>>
            /\ result = 0
            /\ promise.st = "rejected"
            /\ promise.err = HookError
            /\ ~Logged("queryError", 0, "emit")
            /\ \A j \in 1..(MaxHooks + 1) : ~Logged("err", j, "start")
            /\ ~Logged("result", 0, "emit")

\* The first of two pre-hooks of a query that has error handlers failed.
C36_Witness ==
    /\ nPre = 2
    /\ nErr = 2
    /\ Logged("pre", 1, "fail")
    /\ promise.st = "rejected"
    /\ pc = "done"

\* C37: when the handler has called reply with data (or with nothing) and
\* has thrown E in its synchronous body, the QueryResult that reply built
\* is never stored in query.result, never given to a post-hook and never
\* emitted with `result`, and the execute() promise never resolves; the
\* throw that follows the reply rejects the promise of _invokeHandler with
\* E at once; and once the execution is over `queryError` has been emitted,
\* the error handlers have run (up to one that failed) and the execute()
\* promise has rejected with E.
C37_ThrownError == log[First("throw", 0, "start")].a
C37_ReplyThenThrow ==
    /\ []((HandlerThrew /\ firstReply.by = "handler" /\ firstReply.arg.t # "err") =>
            /\ Len(results) = 1
            /\ inner.st = "rejected"
            /\ inner.err = C37_ThrownError
            /\ result = 0
            /\ promise.st # "resolved"
            /\ \A i \in 1..(MaxHooks + 1) : ~Logged("post", i, "start")
            /\ ~Logged("result", 0, "emit")
            /\ pc \in {"awaitReply", "err", "done"}
            /\ pc \in {"err", "done"} => Logged("queryError", 0, "emit")
            /\ pc = "done" =>
                 /\ promise.st = "rejected"
                 /\ promise.err = C37_ThrownError
                 /\ (ErrHandlerFailed \/ \A i \in 1..nErr : Logged("err", i, "end")))
    /\ [][(turn = "handler" /\ replied /\ firstReply.by = "handler"
             /\ firstReply.arg.t # "err" /\ ~HandlerThrew /\ HandlerThrew') =>
              (/\ inner.st = "pending"
               /\ inner'.st = "rejected"
               /\ immediates' # <<>>
               /\ results' = results)]_vars

\* The handler replied with data and threw E2; both error handlers have run
\* and the promise has rejected with E2, the result of the reply left aside.
C37_Witness ==
    /\ HandlerThrew
    /\ firstReply.by = "handler"
    /\ firstReply.arg.t = "data"
    /\ ~extraReply
    /\ Len(results) = 1
    /\ nErr = 2
    /\ Logged("err", 2, "end")
    /\ promise.st = "rejected"
    /\ promise.err = "E2"
    /\ result = 0

\* C38: a Query never emits both `result` and `queryError`, emits each of
\* them at most once, and query.result, once assigned, keeps its value.
C38_OutcomeExclusiveFinal ==
    /\ [](/\ ~(Logged("result", 0, "emit") /\ Logged("queryError", 0, "emit"))
          /\ Count("result", 0, "emit") <= 1
          /\ Count("queryError", 0, "emit") <= 1
          /\ Logged("queryError", 0, "emit") => result = 0
          /\ Logged("result", 0, "emit") => result # 0)
    /\ [][result # 0 => result' = result]_vars

\* `result` has been emitted for a query whose execute() was called again
\* and whose error handlers were never called.
C38_Witness ==
    /\ Logged("result", 0, "emit")
    /\ result # 0
    /\ reExecuted
    /\ promise.st = "resolved"
    /\ nErr = 2

\* C33: once the QueryResult exists, a call of through(), field() or
\* fieldDefaults() on the Query leaves the through handlers and the fields
\* of the result as they were, and a call of through() or field() on the
\* result leaves the through handlers and the fields of the Query as they
\* were.
C33_QueryFields == fieldObjs[qFieldsRef]
C33_ResultFields == fieldObjs[rFieldsRef]
C33_QueryThrough == handlerArrs[qThroughRef]
C33_ResultThrough == handlerArrs[rThroughRef]
C33_CopiesNotShared ==
    [][/\ (frameOp'.n = frameOp.n + 1
            /\ frameOp'.op \in {"query.through", "query.field", "query.fieldDefaults"}) =>
              /\ C33_ResultFields' = C33_ResultFields
              /\ C33_ResultThrough' = C33_ResultThrough
       /\ (frameOp'.n = frameOp.n + 1
            /\ frameOp'.op \in {"result.through", "result.field"}) =>
              /\ C33_QueryFields' = C33_QueryFields
              /\ C33_QueryThrough' = C33_QueryThrough]_vars

\* fieldDefaults() on the Query gave it an entry the result does not have,
\* after through() on the Query and through() on the result had given each
\* a handler of its own.
C33_Witness ==
    /\ frameOp.op = "query.fieldDefaults"
    /\ frameOp.n = 3
    /\ C33_QueryFields["first"].present
    /\ ~C33_ResultFields["first"].present
    /\ C33_QueryThrough = <<"t1", "t2">>
    /\ C33_ResultThrough = <<"t1", "t1">>

\* C32 (as claimed): with a limit N >= 0, no through stage of the composed
\* flow receives more than N records, and the output is what the through
\* stages, applied in order, make of the first N records of the data.
RECURSIVE C32_ApplyAll(_, _)
C32_ApplyAll(handlers, recs) ==
    IF handlers = <<>> THEN recs
    ELSE C32_ApplyAll(Tail(handlers), ApplyStage(Head(handlers), recs))
C32_FirstN == Take(FirstRecords(pData), pLimit)
C32_EveryStageAtMostN ==
    (pLimit >= 0 /\ pFlow # <<>>) =>
        /\ \A i \in 1..Len(pThrough) : Len(pFlow[i]) <= pLimit
        /\ pFlow[Len(pFlow)] = C32_ApplyAll(pThrough, C32_FirstN)

\* C32 (amended): with a limit N >= 0, the first through stage of the
\* composed flow, a stage a post-hook put first included, receives the
\* first N records of the data and no more; every later stage receives
\* what the stages before it, applied in order, make of those N records
\* (which is more than N records where a stage emits several records for
\* one); and the output is what all the stages, applied in order, make of
\* the first N records.
C32_LimitBeforeThrough ==
    (pLimit >= 0 /\ pFlow # <<>>) =>
        /\ Len(pFlow) = Len(pThrough) + 1
        /\ pFlow[1] = C32_FirstN
        /\ Len(pFlow[1]) <= pLimit
        /\ \A i \in 1..Len(pFlow) :
             pFlow[i] = C32_ApplyAll(SubSeq(pThrough, 1, i - 1), C32_FirstN)
        /\ pFlow[Len(pFlow)] = C32_ApplyAll(pThrough, C32_FirstN)

\* A flow limited to two of three records, with a stage a post-hook put
\* before the stage of the query: the doubling stage got two records, the
\* tagging stage after it four.
C32_Witness ==
    /\ pLimit = 2
    /\ pData = 3
    /\ pThrough = <<"dup", "tag">>
    /\ pFlow = <<<<1, 2>>, <<1, 1, 2, 2>>, <<11, 11, 12, 12>>>>

\* C34: the core reads the stream of a result (toArray() of the Query)
\* only once every post-hook has completed, and the flow it reads is
\* composed then, so every stage a post-hook put first among the through
\* handlers processes every record the stream gives; and a post-hook is
\* called only after the handler's synchronous body is over, with
\* query.result, the very QueryResult the shim the handler holds writes its
\* selected count and fields to.
C34_PostHookStarts ==
    /\ Len(log') = Len(log) + 1
    /\ log'[Len(log')].k = "post"
    /\ log'[Len(log')].ph = "start"
C34_StreamAfterPostHooks ==
    /\ [](arr.done =>
            /\ promise.st = "resolved"
            /\ pc = "done"
            /\ hsnap = nPost
            /\ \A i \in 1..nPost : Logged("post", i, "end")
            /\ arr.stages = postStages)
    /\ [](postStages <= Cardinality({n \in 1..Len(log) :
                                        log[n].k = "post" /\ log[n].ph = "start"}))
    /\ [][postStages' # postStages => (~arr.done /\ ~arr'.done /\ promise.st = "pending")]_vars
    /\ [][C34_PostHookStarts =>
            /\ turn = "idle"
            /\ result # 0
            /\ log'[Len(log')].q = result
            /\ results' = results
            /\ ~arr.done
            /\ (hShim # 0 => hShim = result)]_vars

\* Two post-hooks each put a stage first, after the handler had set the
\* selected count through the shim; toArray() then read the records through
\* both stages.
C34_Witness ==
    /\ nPost = 2
    /\ postStages = 2
    /\ arr.done
    /\ arr.stages = 2
    /\ arr.recs = <<1, 2>>
    /\ hShim = result
    /\ results[result].selected = 10

\* C39: an entry that passes the hit test (it exists and carries a hash)
\* replays only records of the execution whose cacheResult wrote that
\* hash, and while that execution is the running one its count is the
\* number of records the execution has written so far.
C39_EntryReplaysItsExecution ==
    \A k \in CacheKeys :
        LET e == store[k] IN
          (e.exists /\ e.hash \in Signatures) =>
              /\ \A i \in 1..Len(RedisReadStream(e)) : RedisReadStream(e)[i] = e.by
              /\ (e.by = runs /\ cq.key = k) =>
                     /\ e.count = wcount
                     /\ Len(RedisReadStream(e)) <= hrecs

=============================================================================
